---- MODULE Spec2Model ----
(***************************************************************************)
(* A model of the simulation core of Selement (Assets/modules/entities.py, *)
(* world.py, utility.py, biome.py, player.py).                             *)
(*                                                                         *)
(* The module holds several specifications, one per subsystem; each        *)
(* specification drives its own group of variables and leaves the other    *)
(* groups at their initial values:                                         *)
(*   SpecMob    one Mob and its attack state machine (Mob.update)          *)
(*   SpecProj   one Projectile in a world pool (Projectile.update)         *)
(*   SpecWorld  the frame of World.update / Room.update: the pools and the *)
(*              exposed entity list                                        *)
(*   SpecChunk  the chunk streaming of World (_load_chunks_around_player)  *)
(*   SpecGen    the generation of a chunk's tiles and decorations from the *)
(*              world seed, with the shared random generator               *)
(*   SpecBiome  the biome lookups (biome.get_biome) on a World or a Room   *)
(*   SpecHazard the mob attacks against the player (Player._update_hp)     *)
(*   SpecPool   the lists world.mob, world.mob_attack, world.player_attack *)
(*              entity by entity, over the frames of the main loop         *)
(*   SpecSpawn  the size of world.mob under the game tick (_spawn_mob),    *)
(*              with the real limit MOB_SPAWN_MAX                          *)
(*   SpecMove   the positions of one mob and the player over the frames of *)
(*              a World or of the boss Room (move, clamp, collider)        *)
(*   SpecTimer  the game tick timer of World.update, with its float        *)
(*              arithmetic                                                 *)
(*   SpecDespawn the mobs of a World by their positions under _spawn_mob   *)
(*              (despawn distance) and the player's moves                  *)
(*   SpecDeco   the decorations of one chunk, draw by draw, and their      *)
(*              exposure by the chunk loop of _refresh_entities            *)
(*   SpecElem   the player's element counters, the selected attack and the *)
(*              projectiles of Player.update (charge, select, attack)      *)
(*                                                                         *)
(* Units: time is in milliseconds, the unit of pygame.time.get_ticks();    *)
(* a duration the source gives in seconds is written in milliseconds, so   *)
(* TimeKeeper's (ticks - start) / 1000 >= duration is (ticks - start) >=   *)
(* duration here.  Distances are in pixels.  A damage value is in tenths   *)
(* of a hit point, so that int(damage) is a real truncation.               *)
(***************************************************************************)
EXTENDS Integers, Sequences, FiniteSets, TLC

VARIABLES
    \* ---- SpecMob: one mob of world.mob, the clock, the player ----
    now,            \* pygame.time.get_ticks()
    mob,            \* the Mob object (a record of its fields)
    mob_in_pool,    \* whether the mob is still in world.mob
    player_alive,   \* world.player.alive
    emitted,        \* what the last mob update added to the world
    trace,          \* history: the mob's end-of-tick states, without repeats
    always_in,      \* history: every update so far saw the player alive and in range
    t_first,        \* history: the time of the mob's first update (None before)
    hits_left,      \* how many more player attacks may still hit the mob
    \* ---- SpecProj: one projectile of world.mob_attack or world.player_attack ----
    proj,           \* the Projectile object (a record of its fields)
    proj_in_pool,   \* whether the projectile is still in its list
    proj_calls,     \* how many times Projectile.update has been called on it
    \* ---- SpecWorld: the pools of a world and its exposed entity list ----
    world_kind,     \* "world" (World) or "room" (Room, no noise generators)
    player_cell,    \* the tile the player stands on
    player_biome,   \* world.player_biome ("none" before the first frame)
    pool,           \* world.mob, world.mob_attack, world.player_attack: one place each
    entities,       \* world.entities: the pools' entities exposed by the last frame
    fired,          \* history: the last frame's player update appended its projectile
    \* ---- SpecChunk: the player's position and the loaded chunks ----
    player_x,       \* world.player.x, a float, in quarter pixels
    player_y,       \* world.player.y
    current_chunk,  \* world.current_chunk, a chunk centre in pixels
    last_chunk,     \* world.last_chunk
    loaded_chunks,  \* the keys of world.loaded_chunks
    chunk_before,   \* history: world.last_chunk when the last update began
    generated,      \* history: the chunks the last update constructed
    unloaded,       \* history: the chunks the last update deleted
    \* ---- SpecGen: the random module and the chunks generated from it ----
    world_seed,     \* world.seed
    rng,            \* the state of the random module's shared generator
    chunk_store,    \* world.loaded_chunks: the Chunk at each coordinate
    first_made,     \* history: the Chunk first generated at each coordinate
    made_count,     \* history: how many times each coordinate was generated
    \* ---- SpecBiome: the lookups of biome.get_biome on one world ----
    bio_world,      \* the world argument: which attributes it has, its seed
    bio_last,       \* the last lookup: its arguments, samples and result
    bio_prev,       \* history: the lookup before the last
    \* ---- SpecPool: the three lists of a world, entity by entity ----
    in_room,        \* whether game_world is the Room
    mob_list,       \* world.mob, in list order
    mob_attack,     \* world.mob_attack, in list order
    player_attack,  \* world.player_attack, in list order
    next_id,        \* history: the name the next mob made gets
    shot_id,        \* history: the name the next player projectile gets
    damage_by,      \* history: the get_damage calls each player projectile caused
    boss_alive,     \* Game.boss_alive
    frame_log,      \* history: what the last frame did
    gone,           \* history: the mobs removed from world.mob
    down_frames,    \* history: the frames run since boss_alive became false
    \* ---- SpecHazard: world.mob_attack against the player's collider ----
    hz_now,         \* pygame.time.get_ticks()
    hz_list,        \* world.mob_attack: ShockWave and Projectile objects
    hz_made,        \* history: the attacks appended, with their times
    hz_calls,       \* history: per attack, the times of its player.get_damage calls
    hz_last,        \* history: the attacks the last _update_hp met and damaged with
    \* ---- SpecSpawn: the size of world.mob of a World ----
    sp_live,        \* the mobs of world.mob with alive = True
    sp_dead,        \* the mobs of world.mob with alive = False, not yet removed
    sp_ticked,      \* a game tick ran in the World.update under way
    sp_tick,        \* history: the last _spawn_mob call
    \* ---- SpecMove: the positions of a mob and the player ----
    mv_room,        \* the world is the boss Room (else the open World)
    mv_now,         \* time.time() at the frame (ms)
    mv_player,      \* player.x and player.y
    mv_alive,       \* player.alive
    mv_mob,         \* the observed mob of world.mob
    mv_in_pool,     \* the observed mob is in world.mob
    mv_pos,         \* its x and y
    mv_collider,    \* the x and y of its collider
    mv_last,        \* history: the last update of the observed mob
    mv_shots,       \* history: the player projectiles that met the mob so far
    mv_frames,      \* history: the frames so far
    \* ---- SpecTimer: the game tick timer of a World ----
    tm_now,         \* pygame.time.get_ticks() at the frame
    tm_start,       \* game_tick_timer.start_time
    tm_last,        \* history: the tick part of the last World.update
    tm_frames,      \* history: the frames so far
    \* ---- SpecDespawn: the mobs of a World by their positions ----
    ds_player,      \* player.x and player.y
    ds_mobs,        \* the x and y of the mobs of world.mob in list order
    ds_last,        \* history: the last call of _spawn_mob
    ds_ticks,       \* history: the calls of _spawn_mob so far
    ds_moves,       \* history: the player moves so far
    \* ---- SpecDeco: a chunk's decorations, draw by draw ----
    dc_seed,        \* world.seed
    dc_chunk,       \* the coordinate (x; y) of the chunk
    dc_entities,    \* chunk.entities; in the order of the appends
    dc_exposed,     \* the decorations in world.entities after the last frame
    dc_pb,          \* world.player_biome in the last frame
    dc_framed,      \* _refresh_entities has run since the last append
    \* ---- SpecElem: the player's element counters and attacks ----
    pe_player,      \* the Player object (a record of its fields)
    pe_pool,        \* world.player_attack; in the order of the appends
    pe_updates      \* the calls of Player.update so far

mobVars == <<now, mob, mob_in_pool, player_alive, emitted, trace, always_in, t_first,
             hits_left>>

projVars == <<proj, proj_in_pool, proj_calls>>

worldVars == <<world_kind, player_cell, player_biome, pool, entities, fired>>

chunkVars == <<player_x, player_y, current_chunk, last_chunk, loaded_chunks,
               chunk_before, generated, unloaded>>

genVars == <<world_seed, rng, chunk_store, first_made, made_count>>

bioVars == <<bio_world, bio_last, bio_prev>>

poolVars == <<in_room, mob_list, mob_attack, player_attack, next_id, shot_id,
              damage_by, boss_alive, frame_log, gone, down_frames>>

hazardVars == <<hz_now, hz_list, hz_made, hz_calls, hz_last>>

spawnVars == <<sp_live, sp_dead, sp_ticked, sp_tick>>

moveVars == <<mv_room, mv_now, mv_player, mv_alive, mv_mob, mv_in_pool, mv_pos,
              mv_collider, mv_last, mv_shots, mv_frames>>

timerVars == <<tm_now, tm_start, tm_last, tm_frames>>

despawnVars == <<ds_player, ds_mobs, ds_last, ds_ticks, ds_moves>>

decoVars == <<dc_seed, dc_chunk, dc_entities, dc_exposed, dc_pb, dc_framed>>

elemVars == <<pe_player, pe_pool, pe_updates>>

vars == <<mobVars, projVars, worldVars, chunkVars, genVars, bioVars, poolVars,
          hazardVars, spawnVars, moveVars, timerVars, despawnVars, decoVars, elemVars>>

\* The variables a specification does not drive.
exceptMob == <<projVars, worldVars, chunkVars, genVars, bioVars, poolVars,
    hazardVars, spawnVars, moveVars, timerVars, despawnVars, decoVars, elemVars>>
exceptProj == <<mobVars, worldVars, chunkVars, genVars, bioVars, poolVars,
    hazardVars, spawnVars, moveVars, timerVars, despawnVars, decoVars, elemVars>>
exceptWorld == <<mobVars, projVars, chunkVars, genVars, bioVars, poolVars,
    hazardVars, spawnVars, moveVars, timerVars, despawnVars, decoVars, elemVars>>
exceptChunk == <<mobVars, projVars, worldVars, genVars, bioVars, poolVars,
    hazardVars, spawnVars, moveVars, timerVars, despawnVars, decoVars, elemVars>>
exceptGen == <<mobVars, projVars, worldVars, chunkVars, bioVars, poolVars,
    hazardVars, spawnVars, moveVars, timerVars, despawnVars, decoVars, elemVars>>
exceptBio == <<mobVars, projVars, worldVars, chunkVars, genVars, poolVars,
    hazardVars, spawnVars, moveVars, timerVars, despawnVars, decoVars, elemVars>>
exceptPool == <<mobVars, projVars, worldVars, chunkVars, genVars, bioVars,
    hazardVars, spawnVars, moveVars, timerVars, despawnVars, decoVars, elemVars>>
exceptHazard == <<mobVars, projVars, worldVars, chunkVars, genVars, bioVars, poolVars,
    spawnVars, moveVars, timerVars, despawnVars, decoVars, elemVars>>
exceptSpawn == <<mobVars, projVars, worldVars, chunkVars, genVars, bioVars, poolVars,
    hazardVars, moveVars, timerVars, despawnVars, decoVars, elemVars>>
exceptMove == <<mobVars, projVars, worldVars, chunkVars, genVars, bioVars, poolVars,
    hazardVars, spawnVars, timerVars, despawnVars, decoVars, elemVars>>
exceptTimer == <<mobVars, projVars, worldVars, chunkVars, genVars, bioVars, poolVars,
    hazardVars, spawnVars, moveVars, despawnVars, decoVars, elemVars>>
exceptDespawn == <<mobVars, projVars, worldVars, chunkVars, genVars, bioVars, poolVars,
    hazardVars, spawnVars, moveVars, timerVars, decoVars, elemVars>>
exceptDeco == <<mobVars, projVars, worldVars, chunkVars, genVars, bioVars, poolVars,
    hazardVars, spawnVars, moveVars, timerVars, despawnVars, elemVars>>
exceptElem == <<mobVars, projVars, worldVars, chunkVars, genVars, bioVars, poolVars,
    hazardVars, spawnVars, moveVars, timerVars, despawnVars, decoVars>>

\* ------------------------------------------------------------------ bounds
MaxTime == 3500         \* the clock stops here
MaxTrace == 5           \* the history keeps this many states
MaxBossTime == 2000     \* the clock stops here when the mob is the boss
MaxHits == 2            \* the player attacks that hit the mob in one run

\* ------------------------------------------------------ Python's None, inf
None == -1
Inf == 1000000

\* ---------------------------------------------------------- the inputs
TickSteps == {250, 500}                     \* milliseconds between two frames
DistSet == {50, 300, 900, 2500, 20000}      \* player distances, around every threshold
PlayerDamages == {100, 900}                 \* fire ball 10, magma arrow 90 (tenths)
HitSets == {<<>>, <<100>>, <<900, 900>>}
ChangeDurations == {1000, 10000}            \* random.uniform(1, 10) seconds
MaxStep == CHOOSE s \in TickSteps : \A u \in TickSteps : u <= s
MinStep == CHOOSE s \in TickSteps : \A u \in TickSteps : s <= u

\* ------------------------------------------------------------ TimeKeeper
TimeKeeper(duration, t) == [duration |-> duration, start_time |-> t]

is_finished(tk, t) ==
    IF tk.duration = None THEN TRUE ELSE (t - tk.start_time) >= tk.duration

\* ------------------------------------------------------------- MobState
MobState == {"idle", "chase", "attack_startup", "attack_execute",
             "attack_recovery", "attack_again"}

BossSelfState == {"projectile", "wave", "summon_minions"}

MobKinds == {"mob", "burster", "biter", "flutterer", "plower", "boss_self"}

\* The constructor arguments of each subtype: view, hp, attack_distance,
\* attack_startup, attack_recovery, move_while_attack.  "mob" is the base class
\* built with startup 1.0 s and recovery 0.5 s.
MobParams(kind) ==
    CASE kind = "mob"       -> [view |-> 1000, hp |-> 100, attack_distance |-> 500,
                                attack_startup |-> 1000, attack_recovery |-> 500,
                                move_while_attack |-> FALSE]
      [] kind = "burster"   -> [view |-> 1000, hp |-> 100, attack_distance |-> 500,
                                attack_startup |-> 1000, attack_recovery |-> 2000,
                                move_while_attack |-> FALSE]
      [] kind = "biter"     -> [view |-> 2000, hp |-> 100, attack_distance |-> 100,
                                attack_startup |-> 0, attack_recovery |-> 100,
                                move_while_attack |-> FALSE]
      [] kind = "flutterer" -> [view |-> 3000, hp |-> 10, attack_distance |-> 100,
                                attack_startup |-> 0, attack_recovery |-> 100,
                                move_while_attack |-> TRUE]
      [] kind = "plower"    -> [view |-> 2000, hp |-> 100, attack_distance |-> 800,
                                attack_startup |-> 500, attack_recovery |-> 1000,
                                move_while_attack |-> FALSE]
      [] kind = "boss_self" -> [view |-> Inf, hp |-> 2000, attack_distance |-> None,
                                attack_startup |-> 0, attack_recovery |-> None,
                                move_while_attack |-> FALSE]

\* Mob.__init__ (and BossSelf.__init__ for next_attack, start and
\* attack_change_timer) at time t.
NewMob(kind, t, next_attack, change_duration) ==
    LET p == MobParams(kind) IN
    [kind |-> kind,
     view |-> p.view,
     hp |-> p.hp,
     attack_distance |-> p.attack_distance,
     attack_startup |-> p.attack_startup,
     attack_recovery |-> p.attack_recovery,
     move_while_attack |-> p.move_while_attack,
     attack_startup_timer |-> TimeKeeper(0, t),
     attack_recovery_timer |-> TimeKeeper(0, t),
     detect_player |-> FALSE,
     attack_possible |-> FALSE,
     state |-> "idle",
     last_state |-> "idle",
     alive |-> TRUE,
     next_attack |-> next_attack,
     start |-> FALSE,
     attack_change_timer |-> TimeKeeper(change_duration, t)]

\* int(damage), damage in tenths: truncation toward zero.
IntOf(damage) == IF damage >= 0 THEN damage \div 10 ELSE -((-damage) \div 10)

get_damage_unclamped(m, damage) ==
    IF m.alive THEN [m EXCEPT !.hp = m.hp - IntOf(damage)] ELSE m

\* Mob.get_damage
get_damage(m, damage) ==
    LET m1 == IF m.alive THEN [m EXCEPT !.hp = m.hp - IntOf(damage)] ELSE m
    IN  IF m1.hp < 0 THEN [m1 EXCEPT !.hp = 0] ELSE m1

\* The loop of Mob.update_hp over the colliding player attacks, in order.
RECURSIVE ApplyHits(_, _)
ApplyHits(m, hits) ==
    IF hits = <<>> THEN m
    ELSE ApplyHits(get_damage(m, Head(hits)), Tail(hits))

\* Mob.update_hp: hits are the damages of the player attacks that collide.
update_hp(m, hits) ==
    LET m1 == ApplyHits(m, hits)
    IN  IF m1.hp <= 0 THEN [m1 EXCEPT !.alive = FALSE] ELSE m1

\* The state transitions of Mob.update, one if-statement each, in the order of
\* the source.

\* idle/chase -> attack_startup
EnterStartup_detected(m, t) ==
    IF m.last_state \in {"idle", "chase"} /\ m.detect_player
    THEN [m EXCEPT !.state = "attack_startup",
                   !.attack_startup_timer = TimeKeeper(m.attack_startup, t)]
    ELSE m

EnterStartup(m, t) ==
    IF m.last_state \in {"idle", "chase"} /\ m.detect_player /\ m.attack_possible
    THEN [m EXCEPT !.state = "attack_startup",
                   !.attack_startup_timer = TimeKeeper(m.attack_startup, t)]
    ELSE m

\* attack_again -> attack_startup
AgainToStartup_stay(m, t) == m

AgainToStartup(m, t) ==
    IF m.state = "attack_again"
    THEN [m EXCEPT !.state = "attack_startup",
                   !.attack_startup_timer = TimeKeeper(m.attack_startup, t)]
    ELSE m

\* attack_startup -> idle when the player is out of attack range
CancelStartup_never(m) == m

CancelStartup(m) ==
    IF m.state = "attack_startup" /\ ~m.attack_possible
    THEN [m EXCEPT !.state = "idle"]
    ELSE m

\* attack_startup -> attack_execute when the startup timer is over
StartupToExecute(m, t) ==
    IF is_finished(m.attack_startup_timer, t) /\ m.state = "attack_startup"
    THEN [m EXCEPT !.state = "attack_execute"]
    ELSE m

ExecuteToRecovery_stay(m, t) == m

\* attack_execute -> attack_recovery after one tick
ExecuteToRecovery(m, t) ==
    IF m.last_state = "attack_execute" /\ m.state = "attack_execute"
    THEN [m EXCEPT !.state = "attack_recovery",
                   !.attack_recovery_timer = TimeKeeper(m.attack_recovery, t)]
    ELSE m

LeaveRecovery_chase(m, t) ==
    IF m.state = "attack_recovery" /\ is_finished(m.attack_recovery_timer, t)
    THEN [m EXCEPT !.state = IF m.detect_player THEN "chase" ELSE "idle"]
    ELSE m

\* attack_recovery -> attack_again / chase / idle when the recovery timer is over
LeaveRecovery(m, t) ==
    IF m.state = "attack_recovery" /\ is_finished(m.attack_recovery_timer, t)
    THEN [m EXCEPT !.state = IF m.attack_possible THEN "attack_again"
                             ELSE IF m.detect_player THEN "chase"
                             ELSE "idle"]
    ELSE m

\* idle -> chase
IdleToChase(m) ==
    IF m.last_state = "idle" /\ ~m.attack_possible
    THEN [m EXCEPT !.state = IF m.detect_player THEN "chase" ELSE "idle"]
    ELSE m

Transition_keep(m, palive, t) ==
    IF ~palive THEN m
    ELSE IdleToChase(
           LeaveRecovery(
             ExecuteToRecovery(
               StartupToExecute(
                 CancelStartup(
                   AgainToStartup(
                     EnterStartup(m, t), t)), t), t), t))

Transition(m, palive, t) ==
    IF ~palive THEN [m EXCEPT !.state = "idle"]
    ELSE IdleToChase(
           LeaveRecovery(
             ExecuteToRecovery(
               StartupToExecute(
                 CancelStartup(
                   AgainToStartup(
                     EnterStartup(m, t), t)), t), t), t))

\* Mob.update: distance flags, transitions, damage resolution, state backup.
MobUpdate(m, dist, palive, t, hits) ==
    LET m0 == [m EXCEPT !.detect_player = dist < m.view,
                        !.attack_possible = IF m.attack_distance # None
                                            THEN dist < m.attack_distance
                                            ELSE FALSE]
        m1 == Transition(m0, palive, t)
        m2 == update_hp(m1, hits)
    IN  [m2 EXCEPT !.last_state = m2.state]

NoEffect == [projectiles |-> 0, shock_waves |-> 0, minions |-> 0, player_hits |-> 0]

Attacking_recovery(m) == m.state \in {"attack_execute", "attack_recovery"}

\* The test of every subtype's update after super().update():
\* if self.state == MobState.attack_execute
Attacking(m) == m.state = "attack_execute"

\* What a subtype's update adds after super().update(): Burster 120 projectiles,
\* Biter and Flutterer one player.get_damage(1), Plower one ShockWave, BossSelf by
\* its current pattern.
AttackEffect(m) ==
    IF ~Attacking(m) THEN NoEffect
    ELSE CASE m.kind = "burster"   -> [NoEffect EXCEPT !.projectiles = 120]
           [] m.kind = "biter"     -> [NoEffect EXCEPT !.player_hits = 1]
           [] m.kind = "flutterer" -> [NoEffect EXCEPT !.player_hits = 1]
           [] m.kind = "plower"    -> [NoEffect EXCEPT !.shock_waves = 1]
           [] m.kind = "boss_self" ->
                (CASE m.next_attack = "projectile" -> [NoEffect EXCEPT !.projectiles = 5]
                   [] m.next_attack = "wave" -> [NoEffect EXCEPT !.shock_waves = 1]
                   [] m.next_attack = "summon_minions" -> [NoEffect EXCEPT !.minions = 4])
           [] OTHER -> NoEffect

\* The pattern part of BossSelf.update, before super().update(): the pattern
\* changes when its timer is over, then sets the attack parameters.
BossPattern(m, t, choice, change_duration) ==
    LET m1 == IF is_finished(m.attack_change_timer, t)
              THEN [m EXCEPT !.next_attack = choice,
                             !.attack_change_timer = TimeKeeper(change_duration, t)]
              ELSE m
    IN  CASE m1.next_attack = "wave" ->
               [m1 EXCEPT !.attack_distance = 100, !.attack_recovery = 1000]
          [] m1.next_attack = "projectile" ->
               [m1 EXCEPT !.attack_distance = 1000, !.attack_recovery = 500]
          [] m1.next_attack = "summon_minions" ->
               [m1 EXCEPT !.attack_distance = 10000, !.attack_recovery = 8000]

\* <subtype>.update: the mob after the call.
SubtypeUpdate_unguarded(m, dist, palive, t, hits, choice, change_duration) ==
    IF m.kind = "boss_self"
    THEN MobUpdate(BossPattern(m, t, choice, change_duration), dist, palive, t, hits)
    ELSE MobUpdate(m, dist, palive, t, hits)

SubtypeUpdate(m, dist, palive, t, hits, choice, change_duration) ==
    IF m.kind = "boss_self"
    THEN IF m.start
         THEN MobUpdate(BossPattern(m, t, choice, change_duration), dist, palive, t, hits)
         ELSE m
    ELSE MobUpdate(m, dist, palive, t, hits)

\* <subtype>.update: what the call adds to the world.
SubtypeEffect(m_before, m_after) ==
    IF m_before.kind = "boss_self" /\ ~m_before.start THEN NoEffect
    ELSE AttackEffect(m_after)

\* ------------------------------------------------------------- SpecMob
\* The history of the scenario "the player is alive and in range at every
\* update": it is kept while the scenario lasts and dropped when it ends.
Extend(tr, s) ==
    IF Len(tr) < MaxTrace /\ tr[Len(tr)] # s THEN Append(tr, s) ELSE tr

\* The choices a boss update draws: random.choice and random.uniform are drawn
\* only when the pattern timer is over.
BossDraws(m, t) ==
    IF m.kind = "boss_self" /\ m.start /\ m.alive /\ is_finished(m.attack_change_timer, t)
    THEN BossSelfState \X ChangeDurations
    ELSE {<<m.next_attack, m.attack_change_timer.duration>>}

\* The boss has more to choose at every update, so its runs are shorter.
Horizon(m) == IF m.kind = "boss_self" THEN MaxBossTime ELSE MaxTime

MobInit ==
    /\ now = 0
    /\ \E kind \in MobKinds, na \in BossSelfState, cd \in ChangeDurations :
          mob = NewMob(kind, 0, IF kind = "boss_self" THEN na ELSE "projectile",
                       IF kind = "boss_self" THEN cd ELSE 0)
    /\ mob_in_pool = TRUE
    /\ player_alive = TRUE
    /\ emitted = NoEffect
    /\ trace = <<"idle">>
    /\ always_in = TRUE
    /\ t_first = None
    /\ hits_left = MaxHits

\* One frame's handling of the mob in World._refresh_entities: a live mob is
\* updated, a dead one is removed from world.mob.
MobTick ==
    /\ mob_in_pool
    /\ \E step \in TickSteps, dist \in DistSet, hits \in HitSets :
         /\ now + step <= Horizon(mob)
         /\ now' = now + step
         /\ Len(hits) <= hits_left
         /\ IF mob.alive
            THEN \E draw \in BossDraws(mob, now') :
                 LET after == SubtypeUpdate(mob, dist, player_alive, now', hits,
                                            draw[1], draw[2])
                     inside == always_in /\ player_alive
                                 /\ after.detect_player /\ after.attack_possible
                 IN  /\ mob' = after
                     /\ emitted' = SubtypeEffect(mob, after)
                     /\ always_in' = inside
                     /\ trace' = IF inside THEN Extend(trace, after.state) ELSE <<>>
                     /\ t_first' = IF ~inside THEN None
                                   ELSE IF t_first = None THEN now' ELSE t_first
                     /\ hits_left' = hits_left - Len(hits)
                     /\ mob_in_pool' = TRUE
            ELSE /\ hits = <<>>
                 /\ mob_in_pool' = FALSE
                 /\ emitted' = NoEffect
                 /\ UNCHANGED <<mob, trace, always_in, t_first, hits_left>>
    /\ UNCHANGED player_alive
    /\ UNCHANGED exceptMob

\* Player._game_over
PlayerDies ==
    /\ player_alive
    /\ player_alive' = FALSE
    /\ UNCHANGED <<now, mob, mob_in_pool, emitted, trace, always_in, t_first, hits_left>>
    /\ UNCHANGED exceptMob

\* Game.story: the boss is started.
StoryStartBoss ==
    /\ mob.kind = "boss_self" /\ ~mob.start
    /\ mob' = [mob EXCEPT !.start = TRUE]
    /\ UNCHANGED <<now, mob_in_pool, player_alive, emitted, trace, always_in, t_first, hits_left>>
    /\ UNCHANGED exceptMob

\* Game.story: every mob's hp is set to 0 once the boss is dead.
StoryZeroHp ==
    /\ mob_in_pool /\ mob.hp # 0
    /\ mob' = [mob EXCEPT !.hp = 0]
    /\ UNCHANGED <<now, mob_in_pool, player_alive, emitted, trace, always_in, t_first, hits_left>>
    /\ UNCHANGED exceptMob

\* A direct call of Mob.get_damage.
CallGetDamage ==
    /\ hits_left > 0
    /\ \E d \in PlayerDamages : mob' = get_damage(mob, d)
    /\ hits_left' = hits_left - 1
    /\ UNCHANGED <<now, mob_in_pool, player_alive, emitted, trace, always_in, t_first>>
    /\ UNCHANGED exceptMob

MobNext == MobTick \/ PlayerDies \/ StoryStartBoss \/ StoryZeroHp \/ CallGetDamage

\* ------------------------------------------------------------ Projectile
MaxProjCalls == 14      \* the calls of Projectile.update on one projectile

ProjSteps == {100, 250}                     \* dt, in milliseconds
ShootDistances == {500, 1000}               \* Burster/Plower 500, BossSelf 1000
Origins == {<<0, 0>>, <<300, -400>>}
\* vec.from_polar((vel, angle)) in pixels per second: vel = 1000 along the axes
\* and along the 3-4-5 directions, and a projectile that stands still.
Velocities == {<<1000, 0>>, <<0, 1000>>, <<-1000, 0>>, <<0, -1000>>,
               <<600, 800>>, <<-600, 800>>, <<-800, -600>>, <<0, 0>>}

\* Projectile.__init__
Projectile(x, y, v, shoot_distance) ==
    [x |-> x, y |-> y, origin_x |-> x, origin_y |-> y, vx |-> v[1], vy |-> v[2],
     shoot_distance |-> shoot_distance, alive |-> TRUE]

\* utility.distance, squared: on these integers sqrt(a) > d is a > d * d.
Distance2(x1, y1, x2, y2) == (x2 - x1) * (x2 - x1) + (y2 - y1) * (y2 - y1)

OutOfRange_geq(p) ==
    Distance2(p.x, p.y, p.origin_x, p.origin_y) >= p.shoot_distance * p.shoot_distance

\* The test of Projectile.update: distance(x, y, origin_x, origin_y) > shoot_distance
OutOfRange(p) ==
    Distance2(p.x, p.y, p.origin_x, p.origin_y) > p.shoot_distance * p.shoot_distance

Projectile_update_from_zero(p, dt) ==
    IF Distance2(p.x, p.y, 0, 0) > p.shoot_distance * p.shoot_distance
    THEN [p EXCEPT !.alive = FALSE]
    ELSE [p EXCEPT !.x = p.x + (p.vx * dt) \div 1000,
                   !.y = p.y + (p.vy * dt) \div 1000]

\* Projectile.update: the range test comes first and returns; otherwise the
\* projectile moves by its velocity times dt.
Projectile_update(p, dt) ==
    IF OutOfRange(p)
    THEN [p EXCEPT !.alive = FALSE]
    ELSE [p EXCEPT !.x = p.x + (p.vx * dt) \div 1000,
                   !.y = p.y + (p.vy * dt) \div 1000]

\* The variables of SpecProj when another specification runs.
ProjRest ==
    /\ proj = Projectile(0, 0, <<0, 0>>, 500)
    /\ proj_in_pool = FALSE
    /\ proj_calls = 0

MobRest ==
    /\ now = 0
    /\ mob = NewMob("mob", 0, "projectile", 0)
    /\ mob_in_pool = FALSE
    /\ player_alive = TRUE
    /\ emitted = NoEffect
    /\ trace = <<>>
    /\ always_in = FALSE
    /\ t_first = None
    /\ hits_left = 0

ProjInit ==
    /\ \E o \in Origins, v \in Velocities, sd \in ShootDistances :
          proj = Projectile(o[1], o[2], v, sd)
    /\ proj_in_pool = TRUE
    /\ proj_calls = 0

\* World._update_projectiles, for this projectile: a live one is updated, a
\* dead one is removed from the list.
UpdateProjectiles ==
    /\ proj_in_pool
    /\ IF proj.alive
       THEN /\ proj_calls < MaxProjCalls
            /\ \E dt \in ProjSteps : proj' = Projectile_update(proj, dt)
            /\ proj_calls' = proj_calls + 1
            /\ UNCHANGED proj_in_pool
       ELSE /\ proj_in_pool' = FALSE
            /\ UNCHANGED <<proj, proj_calls>>
    /\ UNCHANGED exceptProj

\* Mob.update_hp and Player.update_hp: a projectile that hits is removed from
\* its list, its alive flag left as it is.
RemoveOnHit ==
    /\ proj_in_pool
    /\ proj_in_pool' = FALSE
    /\ UNCHANGED <<proj, proj_calls>>
    /\ UNCHANGED exceptProj

\* A call of Projectile.update from anywhere, on a live or a dead projectile.
CallProjectileUpdate ==
    /\ proj_calls < MaxProjCalls
    /\ \E dt \in ProjSteps : proj' = Projectile_update(proj, dt)
    /\ proj_calls' = proj_calls + 1
    /\ UNCHANGED proj_in_pool
    /\ UNCHANGED exceptProj

ProjNext == UpdateProjectiles \/ RemoveOnHit \/ CallProjectileUpdate

\* ----------------------------------------------------------------- World
MaxRange == 1           \* the updates a projectile or shock wave moves before it expires

\* A strip of tiles that repeats; position is the tile, the biome is the tile's.
BiomeOfCell == <<"water", "dirt", "fire">>
Cells == 1..Len(BiomeOfCell)
PoolNames == {"mob", "mob_attack", "player_attack"}
Shots == {"none", "projectile", "shock_wave"}

\* biome.get_biome: by the noise at the tile; Biome.fifth_biome in a world
\* without noise generators (Room).
get_biome(kind, cell) == IF kind = "world" THEN BiomeOfCell[cell] ELSE "fifth_biome"

Shift(cell, d) == ((cell - 1 + d) % Len(BiomeOfCell)) + 1

NoEntity == [present |-> FALSE, cell |-> 1, dir |-> 0, range |-> 0, alive |-> FALSE]

NewEntity(cell, dir, range) ==
    [present |-> TRUE, cell |-> cell, dir |-> dir, range |-> range, alive |-> TRUE]

visible_same_biome(kind, pb, cell) == get_biome(kind, cell) = pb

\* The test of World._append_visible_entity (and of Room._render_entities_room).
visible(kind, pb, cell) ==
    IF pb = "water" THEN get_biome(kind, cell) = "water"
    ELSE get_biome(kind, cell) # "water"

\* World._spawn_mob: a far mob is dropped, a mob is spawned below the limit.
spawn_mob(pl, despawn, spawn) ==
    LET p1 == IF despawn THEN [pl EXCEPT !["mob"] = NoEntity] ELSE pl
    IN  IF ~p1["mob"].present /\ spawn # 0
        THEN [p1 EXCEPT !["mob"] = NewEntity(spawn, 0, 0)]
        ELSE p1

\* The mob loop of World._refresh_entities on w = [pool, entities]: a live mob
\* is updated (it moves, the player projectile that hits it is removed, it may
\* die, it may shoot) and then filtered; a dead mob is removed.
refresh_mobs(kind, w, pb, mobmove, mobhit, mobdies, shoot) ==
    LET mb == w.pool["mob"] IN
    IF ~mb.present THEN w
    ELSE IF ~mb.alive THEN [w EXCEPT !.pool["mob"] = NoEntity]
    ELSE LET moved == [mb EXCEPT !.cell = Shift(mb.cell, mobmove),
                                 !.alive = ~mobdies]
             pa == IF mobhit THEN NoEntity ELSE w.pool["player_attack"]
             ma == IF shoot = "projectile" THEN NewEntity(moved.cell, 1, MaxRange)
                   ELSE IF shoot = "shock_wave" THEN NewEntity(moved.cell, 0, MaxRange)
                   ELSE w.pool["mob_attack"]
         IN  [pool |-> [w.pool EXCEPT !["mob"] = moved, !["player_attack"] = pa,
                                      !["mob_attack"] = ma],
              entities |-> IF visible(kind, pb, moved.cell)
                           THEN w.entities \cup {"mob"} ELSE w.entities]

\* Projectile.update / ShockWave.update on a strip of tiles: a projectile out of
\* range is reported dead where it is, otherwise it moves; a shock wave grows
\* and is reported dead by the update that brings it to its full size.
entity_update(e) ==
    IF e.dir # 0
    THEN IF e.range = 0 THEN [e EXCEPT !.alive = FALSE]
         ELSE [e EXCEPT !.cell = Shift(e.cell, e.dir), !.range = e.range - 1]
    ELSE IF e.range <= 1 THEN [e EXCEPT !.range = 0, !.alive = FALSE]
         ELSE [e EXCEPT !.range = e.range - 1]

\* World._update_projectiles on one list.
update_projectiles(kind, w, pb, name) ==
    LET e == w.pool[name] IN
    IF ~e.present THEN w
    ELSE IF ~e.alive THEN [w EXCEPT !.pool[name] = NoEntity]
    ELSE LET e1 == entity_update(e)
         IN  [pool |-> [w.pool EXCEPT ![name] = e1],
              entities |-> IF visible(kind, pb, e1.cell)
                           THEN w.entities \cup {name} ELSE w.entities]

\* Player.update: the attack appends a projectile to world.player_attack, the
\* hit test removes the mob attack that hits the player.
player_update(pl, cell, fire, phit) ==
    LET p1 == IF fire THEN [pl EXCEPT !["player_attack"] = NewEntity(cell, 1, MaxRange)]
              ELSE pl
    IN  IF phit THEN [p1 EXCEPT !["mob_attack"] = NoEntity] ELSE p1

WorldRest ==
    /\ world_kind = "world"
    /\ player_cell = 1
    /\ player_biome = "none"
    /\ pool = [n \in PoolNames |-> NoEntity]
    /\ entities = {}
    /\ fired = FALSE

\* World.__init__: empty pools; Room.__init__: the boss is in world.mob.
WorldInit ==
    /\ world_kind \in {"world", "room"}
    /\ player_cell \in Cells
    /\ player_biome = "none"
    /\ pool = [n \in PoolNames |->
                 IF n = "mob" /\ world_kind = "room" THEN NewEntity(1, 0, 0) ELSE NoEntity]
    /\ entities = {}
    /\ fired = FALSE

\* The frame from the player's biome to the player's update; the inputs say
\* what the frame's updates do, and are taken only where they have an effect.
Frame(tick, despawn, spawn, mobmove, mobhit, mobdies, shoot, fire, pmove, phit) ==
    LET pb == get_biome(world_kind, player_cell)
        p1 == IF tick THEN spawn_mob(pool, despawn, spawn) ELSE pool
        w1 == [pool |-> p1, entities |-> {}]
        w2 == refresh_mobs(world_kind, w1, pb, mobmove, mobhit, mobdies, shoot)
        w3 == update_projectiles(world_kind, w2, pb, "mob_attack")
        w4 == update_projectiles(world_kind, w3, pb, "player_attack")
        updated == p1["mob"].present /\ p1["mob"].alive
    IN  /\ despawn => tick /\ pool["mob"].present
        /\ spawn # 0 => tick /\ ~(pool["mob"].present /\ ~despawn)
        /\ (mobmove # 0 \/ mobdies \/ mobhit \/ shoot # "none") => updated
        /\ mobhit => p1["player_attack"].present
        /\ shoot # "none" => ~p1["mob_attack"].present
        /\ fire => ~w4.pool["player_attack"].present
        /\ phit => w4.pool["mob_attack"].present
        /\ player_biome' = pb
        /\ entities' = w4.entities
        /\ pool' = player_update(w4.pool, player_cell, fire, phit)
        /\ player_cell' = Shift(player_cell, pmove)
        /\ fired' = fire
        /\ UNCHANGED world_kind
        /\ UNCHANGED exceptWorld

\* World.update
WorldUpdate ==
    /\ world_kind = "world"
    /\ \E tick, despawn, mobhit, mobdies, fire, phit \in BOOLEAN,
          spawn \in {0} \cup Cells, mobmove, pmove \in {0, 1}, shoot \in Shots :
          Frame(tick, despawn, spawn, mobmove, mobhit, mobdies, shoot, fire, pmove, phit)

\* Room.update: no game tick, the same loops.
RoomUpdate ==
    /\ world_kind = "room"
    /\ \E mobhit, mobdies, fire, phit \in BOOLEAN,
          mobmove, pmove \in {0, 1}, shoot \in Shots :
          Frame(FALSE, FALSE, 0, mobmove, mobhit, mobdies, shoot, fire, pmove, phit)

WorldNext == WorldUpdate \/ RoomUpdate

\* ---------------------------------------------------------------- chunks
\* player.x and player.y are Python floats.  The model keeps their arithmetic
\* and scales their precision down: a coordinate is a whole number of quarter
\* pixels, and a float is a number m * 2^e with m < 2^MantissaBits (53 in the
\* source's doubles), so that a sum rounds as a sum of doubles rounds, at
\* coordinates the model can enumerate.
MantissaBits == 12      \* the bits of a float's significand in the model

LOAD_CHUNK_SIZE == 3
CHUNK_SIZE == 1024

\* world.chunk_size in quarter pixels.
chunk_size == CHUNK_SIZE * 4

Abs(v) == IF v < 0 THEN -v ELSE v

\* The spacing of the floats around a.
RECURSIVE Ulp(_)
Ulp(a) == IF a < 2 ^ MantissaBits THEN 1 ELSE 2 * Ulp(a \div 2)

\* Round to the nearest float, ties to the even significand.
RoundFloat(v) ==
    LET a == Abs(v)
        u == Ulp(a)
        q == a \div u
        r == a % u
        n == IF 2 * r < u THEN q * u
             ELSE IF 2 * r > u THEN (q + 1) * u
             ELSE IF q % 2 = 0 THEN q * u ELSE (q + 1) * u
    IN  IF v < 0 THEN -n ELSE n

\* The float sum a + b.
FAdd(a, b) == RoundFloat(a + b)

\* The positions the player is put at: floats at and next to the chunk
\* boundaries 0 and +-1024 px, and inside the chunks.
PlayerCoords == {-4098, -2048, -1, 0, 2048, 4095, 6144}
\* The spawn point is a pair of integers (random.randint), whole pixels.
SpawnCoords == {-2048, 0, 4096}

_ensure_odd(n) == IF n % 2 # 0 THEN n ELSE n + 1

_ring_range(size_odd) == (-(size_odd \div 2)) .. (size_odd \div 2)

\* World._to_chunk_center on one axis: the division by the power of two and
\* the floor are exact; the result is an int, in pixels.
to_chunk_center_axis(v) == (v \div chunk_size) * CHUNK_SIZE + CHUNK_SIZE \div 2

_to_chunk_center(x, y) == <<to_chunk_center_axis(x), to_chunk_center_axis(y)>>

\* The list need of World._load_chunks_around_player, as a set.
NeedChunks(x, y) ==
    LET size == _ensure_odd(LOAD_CHUNK_SIZE) IN
    { _to_chunk_center(FAdd(x, i * chunk_size), FAdd(y, j * chunk_size)) :
        i \in _ring_range(size), j \in _ring_range(size) }

\* World._load_chunks_around_player: [loaded, unloaded, generated].
_load_chunks_around_player(loaded, x, y) ==
    LET need == NeedChunks(x, y)
        to_remove == {c \in loaded : c \notin need}
        kept == loaded \ to_remove
        new == {c \in need : c \notin kept}
    IN  [loaded |-> kept \cup new, unloaded |-> to_remove, generated |-> new]

ChunkRest ==
    /\ player_x = 0
    /\ player_y = 0
    /\ current_chunk = _to_chunk_center(0, 0)
    /\ last_chunk = _to_chunk_center(0, 0)
    /\ loaded_chunks = {}
    /\ chunk_before = _to_chunk_center(0, 0)
    /\ generated = {}
    /\ unloaded = {}

\* World.__init__: the player at the spawn point, the first load.
ChunkInit ==
    /\ player_x \in SpawnCoords
    /\ player_y \in SpawnCoords
    /\ current_chunk = _to_chunk_center(player_x, player_y)
    /\ last_chunk = current_chunk
    /\ loaded_chunks = _load_chunks_around_player({}, player_x, player_y).loaded
    /\ chunk_before = current_chunk
    /\ generated = {}
    /\ unloaded = {}

\* World.update: the chunk the player is in, the reconciliation when it has
\* changed, and the player's update, which moves the player.
UpdateChunks ==
    LET cur == _to_chunk_center(player_x, player_y)
        r == IF last_chunk # cur
             THEN _load_chunks_around_player(loaded_chunks, player_x, player_y)
             ELSE [loaded |-> loaded_chunks, unloaded |-> {}, generated |-> {}]
    IN  /\ current_chunk' = cur
        /\ loaded_chunks' = r.loaded
        /\ unloaded' = r.unloaded
        /\ generated' = r.generated
        /\ chunk_before' = last_chunk
        /\ last_chunk' = cur
        /\ player_x' \in PlayerCoords
        /\ player_y' \in PlayerCoords
        /\ UNCHANGED exceptChunk

ChunkNext == UpdateChunks

\* ------------------------------------------------------ chunk generation
MaxMade == 2            \* the generations of one chunk coordinate in a run
GrassRounds == 2        \* the rounds of the first loop, range(tile_size) in the source
DecoRounds == 1         \* the rounds of the second loop, range(32) in the source

TILE_SIZE == 128

WorldSeeds == {7, 42}
GenCoords == {<<512, 512>>, <<-512, 1536>>}

\* The random module's generator, scaled down: its state is one of RngStates,
\* a draw steps the state and reads the value off the new state.
RngStates == 0..127
RngCount == Cardinality(RngStates)
NextRng(r) == (5 * r + 3) % RngCount

\* random.seed(str): the state is a function of the string, here of the
\* numbers the string is made of.
seed_of_string(seed, x, y) ==
    (seed * 7 + (x \div TILE_SIZE) * 3 + (y \div TILE_SIZE) * 5 + 1) % RngCount

\* random.random() > permille / 1000, read off the state r
random_above(r, permille) == r * 1000 > permille * RngCount

\* random.randint(a, b), read off the state r: a for the first state, b for
\* the last one.
randint(r, a, b) == a + (r * (b - a)) \div (RngCount - 1)

\* random.choice(seq), read off the state r
choice(r, seq) == seq[1 + (r * Len(seq)) \div RngCount]

\* noise2 of a generator made from the world's seed, at a point: a fixed
\* function of the seed and the point, which changes every half tile.
noise2(k, cx, cy) ==
    (((cx \div (TILE_SIZE \div 2)) * 3 + (cy \div (TILE_SIZE \div 2)) * 4 + k) % 5) - 2

\* centered_x, centered_y of get_biome: the centre of the tile of v.
centered_trunc(v) ==
    (IF v < 0 THEN -((-v) \div TILE_SIZE) ELSE v \div TILE_SIZE) * TILE_SIZE
        + TILE_SIZE \div 2
centered(v) == (v \div TILE_SIZE) * TILE_SIZE + TILE_SIZE \div 2

\* temp and moist of get_biome: the two generators differ by their seeds, the
\* two lookups by their offsets.
temp_noise(seed, x, y) == noise2(seed, centered(x), centered(y))
moist_noise(seed, x, y) == noise2(seed + 1, centered(y), centered(x))

\* The decision of get_biome on the two samples.
classify_geq(temp, moist) ==
    IF temp >= 0 THEN (IF moist >= 0 THEN "air" ELSE "fire")
    ELSE (IF moist >= 0 THEN "water" ELSE "dirt")
classify(temp, moist) ==
    IF temp > 0 THEN (IF moist > 0 THEN "air" ELSE "fire")
    ELSE (IF moist > 0 THEN "water" ELSE "dirt")

\* biome.get_biome of a world with noise generators, at (x, y).
get_biome_xy(seed, x, y) ==
    classify(temp_noise(seed, x, y), moist_noise(seed, x, y))

\* The tiles of Chunk.__init__, in the order of its two loops.
ChunkTiles(seed, cx, cy) ==
    LET tiles_per_axis == CHUNK_SIZE \div TILE_SIZE
        half == tiles_per_axis \div 2
    IN  [k \in 1..(tiles_per_axis * tiles_per_axis) |->
           LET i == ((k - 1) \div tiles_per_axis) - half
               j == ((k - 1) % tiles_per_axis) - half
               tx == cx + i * TILE_SIZE + TILE_SIZE \div 2
               ty == cy + j * TILE_SIZE + TILE_SIZE \div 2
           IN  [x |-> tx, y |-> ty, biome |-> get_biome_xy(seed, tx, ty)]]

\* ox, oy of _generate: two randint draws around the chunk centre.
DrawPos(r, cx, cy) ==
    LET r1 == NextRng(r)
        r2 == NextRng(r1)
    IN  [rng |-> r2,
         x |-> cx + randint(r1, -(CHUNK_SIZE \div 2), CHUNK_SIZE \div 2),
         y |-> cy + randint(r2, -(CHUNK_SIZE \div 2), CHUNK_SIZE \div 2)]

Deco(x, y, name) == [x |-> x, y |-> y, name |-> name]

\* One round of the first loop of _generate on g = [rng, entities].
PlaceGrass(g, seed, cx, cy) ==
    LET r0 == NextRng(g.rng) IN
    IF ~random_above(r0, 200) THEN [g EXCEPT !.rng = r0]
    ELSE LET p == DrawPos(r0, cx, cy)
             ob == get_biome_xy(seed, p.x, p.y)
             r3 == NextRng(p.rng)
         IN  IF ob = "dirt"
             THEN [rng |-> r3,
                   entities |-> Append(g.entities,
                                  Deco(p.x, p.y, choice(r3, <<"grass", "dry_grass">>)))]
             ELSE IF ob = "water"
             THEN [rng |-> p.rng, entities |-> Append(g.entities, Deco(p.x, p.y, "seaweed"))]
             ELSE [g EXCEPT !.rng = p.rng]

\* A tree or a coral: drawn above the threshold, placed in its biome, its
\* name chosen among names.
PlaceInBiome(g, seed, cx, cy, permille, needed, names) ==
    LET r0 == NextRng(g.rng) IN
    IF ~random_above(r0, permille) THEN [g EXCEPT !.rng = r0]
    ELSE LET p == DrawPos(r0, cx, cy)
             ob == get_biome_xy(seed, p.x, p.y)
             r3 == NextRng(p.rng)
         IN  IF ob = needed
             THEN [rng |-> r3,
                   entities |-> Append(g.entities, Deco(p.x, p.y, choice(r3, names)))]
             ELSE [g EXCEPT !.rng = p.rng]

\* A fire: blue with low probability, else fire or strong_fire.
PlaceFire(g, seed, cx, cy) ==
    LET r0 == NextRng(g.rng) IN
    IF ~random_above(r0, 300) THEN [g EXCEPT !.rng = r0]
    ELSE LET p == DrawPos(r0, cx, cy)
             ob == get_biome_xy(seed, p.x, p.y)
             r3 == NextRng(p.rng)
             r4 == NextRng(r3)
         IN  IF ob = "fire"
             THEN IF random_above(r3, 1)
                  THEN [rng |-> r4,
                        entities |-> Append(g.entities,
                                       Deco(p.x, p.y, choice(r4, <<"fire", "strong_fire">>)))]
                  ELSE [rng |-> r3,
                        entities |-> Append(g.entities, Deco(p.x, p.y, "blue_fire"))]
             ELSE [g EXCEPT !.rng = p.rng]

\* A portal, rarely.
PlacePortal(g, cx, cy) ==
    LET r0 == NextRng(g.rng) IN
    IF ~random_above(r0, 990) THEN [g EXCEPT !.rng = r0]
    ELSE LET p == DrawPos(r0, cx, cy)
         IN  [rng |-> p.rng, entities |-> Append(g.entities, Deco(p.x, p.y, "portal"))]

RECURSIVE GrassLoop(_, _, _, _, _)
GrassLoop(g, seed, cx, cy, n) ==
    IF n = 0 THEN g ELSE GrassLoop(PlaceGrass(g, seed, cx, cy), seed, cx, cy, n - 1)

RECURSIVE DecoLoop(_, _, _, _, _)
DecoLoop(g, seed, cx, cy, n) ==
    IF n = 0 THEN g
    ELSE LET g1 == PlaceInBiome(g, seed, cx, cy, 500, "dirt",
                     <<"oak_tree", "birch_tree", "acacia_tree", "jungle_tree">>)
             g2 == PlaceFire(g1, seed, cx, cy)
             g3 == PlaceInBiome(g2, seed, cx, cy, 600, "water",
                     <<"red_coral_reef", "pink_coral_reef", "yellow_coral_reef">>)
             g4 == PlacePortal(g3, cx, cy)
         IN  DecoLoop(g4, seed, cx, cy, n - 1)

reseed_not(r, seed, cx, cy) == r

\* The first line of _generate: the generator is seeded with the world seed and
\* the chunk's coordinates, whatever its state r was.
reseed(r, seed, cx, cy) == seed_of_string(seed, cx, cy)

\* Chunk._generate from the generator state r: [rng, entities].
_generate(r, seed, cx, cy) ==
    LET g0 == [rng |-> reseed(r, seed, cx, cy), entities |-> <<>>]
    IN  DecoLoop(GrassLoop(g0, seed, cx, cy, GrassRounds), seed, cx, cy, DecoRounds)

NoChunk == [made |-> FALSE, tiles |-> <<>>, entities |-> <<>>]

\* Chunk.__init__: the tiles, then _generate.
Chunk(r, seed, cx, cy) ==
    [made |-> TRUE, tiles |-> ChunkTiles(seed, cx, cy),
     entities |-> _generate(r, seed, cx, cy).entities]

GenRest ==
    /\ world_seed = 0
    /\ rng = 0
    /\ chunk_store = [c \in GenCoords |-> NoChunk]
    /\ first_made = [c \in GenCoords |-> NoChunk]
    /\ made_count = [c \in GenCoords |-> 0]

\* World.__init__ up to the first load: the seed is fixed, the generator is
\* wherever the constructor's draws left it.
GenInit ==
    /\ world_seed \in WorldSeeds
    /\ rng \in RngStates
    /\ chunk_store = [c \in GenCoords |-> NoChunk]
    /\ first_made = [c \in GenCoords |-> NoChunk]
    /\ made_count = [c \in GenCoords |-> 0]

\* _load_chunks_around_player constructs the chunk at a needed coordinate that
\* is not loaded.
GenerateChunk ==
    \E c \in GenCoords :
      /\ ~chunk_store[c].made
      /\ made_count[c] < MaxMade
      /\ LET ch == Chunk(rng, world_seed, c[1], c[2]) IN
           /\ chunk_store' = [chunk_store EXCEPT ![c] = ch]
           /\ first_made' = IF first_made[c].made THEN first_made
                            ELSE [first_made EXCEPT ![c] = ch]
      /\ rng' = _generate(rng, world_seed, c[1], c[2]).rng
      /\ made_count' = [made_count EXCEPT ![c] = @ + 1]
      /\ UNCHANGED world_seed
      /\ UNCHANGED exceptGen

\* _load_chunks_around_player deletes a chunk that is no longer needed.
UnloadChunk ==
    \E c \in GenCoords :
      /\ chunk_store[c].made
      /\ chunk_store' = [chunk_store EXCEPT ![c] = NoChunk]
      /\ UNCHANGED <<world_seed, rng, first_made, made_count>>
      /\ UNCHANGED exceptGen

\* World._spawn_mob: random.seed() takes a seed from the system, then draws.
SpawnMobDraws ==
    /\ rng' \in RngStates
    /\ UNCHANGED <<world_seed, chunk_store, first_made, made_count>>
    /\ UNCHANGED exceptGen

\* Any other draw from the shared generator (boss patterns, particles, the
\* player's projectile angle).
RandomDraw ==
    /\ rng' = NextRng(rng)
    /\ UNCHANGED <<world_seed, chunk_store, first_made, made_count>>
    /\ UNCHANGED exceptGen

GenNext == GenerateChunk \/ UnloadChunk \/ SpawnMobDraws \/ RandomDraw

\* --------------------------------------------------- the specifications
\* ---------------------------------------------------------- biome lookups
\* The coordinates looked up: both sides of the tile borders at 0, 128 and
\* -128, and inside the tiles.
BiomeCoords == {-129, -128, -1, 0, 64, 127, 128}

\* The worlds: a World has both noise generators, a Room has neither; an
\* object with one of the two is possible for get_biome, which takes Any.
BiomeWorlds ==
    {w \in [has_temp : BOOLEAN, has_moist : BOOLEAN, seed : WorldSeeds \cup {0}] :
        (w.has_temp /\ w.has_moist) <=> (w.seed \in WorldSeeds)}

NoLookup == [x |-> 0, y |-> 0, sampled |-> FALSE, temp |-> 0, moist |-> 0,
             biome |-> "none"]

\* has_temp and has_moist of get_biome: the test before the branch.
has_noise_either(w) == w.has_temp \/ w.has_moist
has_noise(w) == w.has_temp /\ w.has_moist

\* biome.get_biome(world, x, y), with the samples it took.  Reading a noise
\* generator the world does not have raises AttributeError.
biome_get_biome(w, x, y) ==
    IF has_noise(w)
    THEN IF w.has_temp /\ w.has_moist
         THEN [x |-> x, y |-> y, sampled |-> TRUE,
               temp |-> temp_noise(w.seed, x, y),
               moist |-> moist_noise(w.seed, x, y),
               biome |-> get_biome_xy(w.seed, x, y)]
         ELSE [x |-> x, y |-> y, sampled |-> FALSE, temp |-> 0, moist |-> 0,
               biome |-> "AttributeError"]
    ELSE [x |-> x, y |-> y, sampled |-> FALSE, temp |-> 0, moist |-> 0,
          biome |-> "fifth_biome"]

BioRest ==
    /\ bio_world = [has_temp |-> FALSE, has_moist |-> FALSE, seed |-> 0]
    /\ bio_last = NoLookup
    /\ bio_prev = NoLookup

BioInit ==
    /\ bio_world \in BiomeWorlds
    /\ bio_last = NoLookup
    /\ bio_prev = NoLookup

\* A caller (World.update, Room.update, Player.update, Chunk) looks a biome up.
BiomeLookup ==
    /\ \E x \in BiomeCoords, y \in BiomeCoords :
          bio_last' = biome_get_biome(bio_world, x, y)
    /\ bio_prev' = bio_last
    /\ UNCHANGED bio_world
    /\ UNCHANGED exceptBio

BioNext == BiomeLookup

\* ------------------------------------------------- the pools, mob by mob
MaxSpawns == 2          \* the mobs a World spawns in a run
MaxSummons == 1         \* the summons of a boss in a run
MaxShots == 2           \* the projectiles the player fires in a run
MaxAttacks == 1         \* the length of world.mob_attack
PoolHp == 2             \* a mob's hp, in hits of a player projectile
MaxDownFrames == 3      \* the frames counted after the boss's death

MOB_SPAWN_MAX == 15
\* A summon that appends a second boss in place of the Burster.
MinionKindsWithBoss == <<"boss_self", "biter", "flutterer", "plower">>
\* The four minions of a summon, in the order of the appends.
MinionKinds == <<"burster", "biter", "flutterer", "plower">>

\* A mob of world.mob: the fields the pools depend on, and where it stands.
NewPoolMob(id, kind, cell) ==
    [id |-> id, kind |-> kind, hp |-> PoolHp, alive |-> TRUE, state |-> "idle",
     next_attack |-> "projectile", start |-> FALSE, cell |-> cell]

\* Projectile(...) of Player._shoot_projectile, fired from the tile cell.
NewShot(id, cell) ==
    [id |-> id, damage |-> 10, fresh |-> TRUE, updated |-> FALSE]
        @@ NewEntity(cell, 1, MaxRange)

\* Projectile(...) (dir 1) / ShockWave(...) (dir 0) of a mob's attack_execute;
\* fresh and updated are history: appended, updated in the frame under way.
NewAttack(cell, dir) ==
    [fresh |-> TRUE, updated |-> FALSE] @@ NewEntity(cell, dir, MaxRange)

NoLog == [died |-> {}, exec_dead |-> {}, emitted_by |-> {}, fresh_updated |-> TRUE,
          updated_dead |-> {}, despawned_dead |-> {}, removed |-> {},
          dead_hits |-> {}]

RECURSIVE SeqWithout(_, _)
SeqWithout(s, drop) ==
    IF s = <<>> THEN <<>>
    ELSE IF Head(s) \in drop THEN SeqWithout(Tail(s), drop)
    ELSE <<Head(s)>> \o SeqWithout(Tail(s), drop)

\* if type(attack) == Projectile, of Mob.update_hp: the player's attacks are
\* Projectile objects.
removable_never(attack) == FALSE
removable(attack) == attack.dir # 0

\* if m.alive, of the mob loops of World._refresh_entities and
\* Room._render_entities_room.
updatable_always(m) == TRUE
updatable(m) == m.alive

\* What <subtype>.update adds after super().update(): the test is on the
\* state alone.
pool_effect_alive(m_before, m_after) ==
    IF m_after.alive THEN SubtypeEffect(m_before, m_after) ELSE NoEffect
pool_effect(m_before, m_after) == SubtypeEffect(m_before, m_after)

\* <subtype>.update of the mob at place i of world.mob, on
\* w = [mobs, shots, attacks, next_id, damage_by, log]: Mob.update sets the
\* state (exec says whether this update ends in attack_execute), update_hp
\* applies and removes the player attacks that collide, the subtype adds its
\* attack.
pool_mob_update(w, i, exec, pattern) ==
    LET m0 == w.mobs[i]
        acts == m0.kind # "boss_self" \/ m0.start
        colliding == SelectSeq(w.shots, LAMBDA s : s.cell = m0.cell)
        m1 == [m0 EXCEPT !.state = IF exec = m0.id THEN "attack_execute" ELSE "idle",
                         !.next_attack = IF m0.kind = "boss_self" THEN pattern ELSE @]
        m2 == update_hp(m1, [k \in 1..Len(colliding) |-> colliding[k].damage])
        m3 == IF acts THEN m2 ELSE m0
        eff == pool_effect(m0, m3)
        hit == IF acts THEN {colliding[k] : k \in 1..Len(colliding)} ELSE {}
        minions == IF eff.minions > 0
                   THEN [k \in 1..Len(MinionKinds) |->
                           NewPoolMob(w.next_id + k - 1, MinionKinds[k], 1 + (k % 2))]
                   ELSE <<>>
        added == IF eff.projectiles > 0 THEN <<NewAttack(1, 1)>>
                 ELSE IF eff.shock_waves > 0 THEN <<NewAttack(1, 0)>>
                 ELSE <<>>
    IN  [w EXCEPT
         !.mobs = [w.mobs EXCEPT ![i] = m3] \o minions,
         !.shots = SeqWithout(w.shots, {s \in hit : removable(s)}),
         !.attacks = w.attacks \o added,
         !.next_id = w.next_id + Len(minions),
         !.damage_by = [s \in DOMAIN w.damage_by |->
                          IF \E h \in hit : h.id = s THEN w.damage_by[s] + 1
                          ELSE w.damage_by[s]],
         !.log = [w.log EXCEPT
                    !.died = IF m0.alive /\ ~m3.alive THEN @ \cup {m0.id} ELSE @,
                    !.exec_dead = IF acts /\ ~m3.alive /\ m3.state = "attack_execute"
                                     /\ m3.kind \in {"burster", "plower", "boss_self"}
                                  THEN @ \cup {m0.id} ELSE @,
                    !.emitted_by = IF added # <<>> \/ minions # <<>>
                                   THEN @ \cup {m0.id} ELSE @,
                    !.updated_dead = IF ~m0.alive THEN @ \cup {m0.id} ELSE @,
                    !.dead_hits = @ \cup {h.id : h \in {g \in hit : ~g.alive}}]]

\* The mob loop of World._refresh_entities and Room._render_entities_room from
\* place i on; the loop reaches the mobs appended while it runs.  dead is the
\* list dead_mobs.
RECURSIVE pool_mob_loop(_, _, _, _, _)
pool_mob_loop(w, i, dead, exec, pattern) ==
    IF i > Len(w.mobs)
    THEN [w EXCEPT !.mobs = SeqWithout(w.mobs, dead),
                   !.log.removed = {m.id : m \in dead}]
    ELSE IF updatable(w.mobs[i])
         THEN pool_mob_loop(pool_mob_update(w, i, exec, pattern), i + 1, dead,
                            exec, pattern)
         ELSE pool_mob_loop(w, i + 1, dead \cup {w.mobs[i]}, exec, pattern)

\* World._update_projectiles on a list, place by place.
RECURSIVE pool_update_projectiles(_)
pool_update_projectiles(list) ==
    IF list = <<>> THEN <<>>
    ELSE LET p == Head(list) IN
         IF p.alive
         THEN <<[entity_update(p) EXCEPT !.updated = TRUE]>>
                  \o pool_update_projectiles(Tail(list))
         ELSE pool_update_projectiles(Tail(list))

\* The history fields of a list's entities at the start of a frame.
Stale(list) == [k \in 1..Len(list) |-> [list[k] EXCEPT !.fresh = FALSE, !.updated = FALSE]]

\* World._spawn_mob on w: the mob at place far (0: none) is beyond
\* MOB_DESPAWN_DISTANCE and is removed; below the limit, and when
\* random.random() > 0, a mob of the subtype of the biome is appended.
pool_spawn_mob(w, far, drawn_positive, kind, cell) ==
    LET w1 == IF far = 0 THEN w
              ELSE [w EXCEPT !.mobs = SeqWithout(w.mobs, {w.mobs[far]}),
                             !.log.despawned_dead =
                                 IF w.mobs[far].alive THEN @ ELSE @ \cup {w.mobs[far].id}]
    IN  IF Len(w1.mobs) >= MOB_SPAWN_MAX THEN w1
        ELSE IF drawn_positive
        THEN [w1 EXCEPT !.mobs = Append(@, NewPoolMob(w1.next_id, kind, cell)),
                        !.next_id = @ + 1]
        ELSE w1

\* Player.update on w: _attack appends a projectile (fire is its tile, 0:
\* none), _update_hp removes the Projectile objects of world.mob_attack that
\* collide with the player (collides: all of them do, or none).
pool_player_update(w, fire, collides) ==
    LET a1 == IF collides THEN SelectSeq(w.attacks, LAMBDA a : a.dir = 0) ELSE w.attacks
    IN  IF fire = 0 THEN [w EXCEPT !.attacks = a1]
        ELSE [w EXCEPT !.attacks = a1,
                       !.shots = Append(@, NewShot(w.shot_id, fire)),
                       !.shot_id = @ + 1]

\* The boss part of Game.story on the pool: boss_alive follows the boss in
\* world.mob, every mob's hp is zeroed when it is false, and the boss is
\* started when the line before the boss is completed.
story_boss_alive(mobs, ba) ==
    IF \E k \in 1..Len(mobs) : mobs[k].kind = "boss_self"
    THEN \A k \in 1..Len(mobs) : mobs[k].kind = "boss_self" => mobs[k].alive
    ELSE ba

story_zero_hp_none(mobs, ba) == mobs
story_zero_hp(mobs, ba) ==
    IF ba THEN mobs ELSE [k \in 1..Len(mobs) |-> [mobs[k] EXCEPT !.hp = 0]]

story_start(mobs, line_completed) ==
    [k \in 1..Len(mobs) |->
        IF line_completed /\ mobs[k].kind = "boss_self"
        THEN [mobs[k] EXCEPT !.start = TRUE] ELSE mobs[k]]

IdsOf(list) == {list[k].id : k \in 1..Len(list)}

PoolRest ==
    /\ in_room = FALSE
    /\ mob_list = <<>>
    /\ mob_attack = <<>>
    /\ player_attack = <<>>
    /\ next_id = 1
    /\ shot_id = 1
    /\ damage_by = [s \in 1..MaxShots |-> 0]
    /\ boss_alive = FALSE
    /\ frame_log = NoLog
    /\ gone = {}
    /\ down_frames = 0

\* World.__init__: empty pools; Room.__init__: the boss is in world.mob, and
\* Game.story sets boss_alive when the player enters the room.
PoolInit ==
    /\ in_room \in BOOLEAN
    /\ mob_list = IF in_room THEN <<NewPoolMob(1, "boss_self", 1)>> ELSE <<>>
    /\ mob_attack = <<>>
    /\ player_attack = <<>>
    /\ next_id = IF in_room THEN 2 ELSE 1
    /\ shot_id = 1
    /\ damage_by = [s \in 1..MaxShots |-> 0]
    /\ boss_alive = in_room
    /\ frame_log = NoLog
    /\ gone = {}
    /\ down_frames = 0

\* One pass of the main loop in the play scene: World.update or Room.update
\* (the game tick, the mob loop, the two projectile lists, the player's
\* update) and then Game.story.  The inputs say what the frame's updates do,
\* and are taken only where they have an effect.
PoolFrame(tick, far, drawn, kind, cell, exec, pattern, fire, collides, line_done) ==
    LET w0 == [mobs |-> mob_list, shots |-> Stale(player_attack),
               attacks |-> Stale(mob_attack), next_id |-> next_id,
               shot_id |-> shot_id, damage_by |-> damage_by, log |-> NoLog]
        w1 == IF tick THEN pool_spawn_mob(w0, far, drawn, kind, cell) ELSE w0
        w2 == pool_mob_loop(w1, 1, {}, exec, pattern)
        w3 == [w2 EXCEPT !.attacks = pool_update_projectiles(@)]
        w4 == [w3 EXCEPT
                 !.shots = pool_update_projectiles(@),
                 !.log.fresh_updated =
                     Len(SelectSeq(w2.attacks, LAMBDA a : a.fresh))
                       = Len(SelectSeq(w3.attacks, LAMBDA a : a.fresh /\ a.updated))]
        w5 == pool_player_update(w4, fire, collides)
        ba == IF in_room THEN story_boss_alive(w5.mobs, boss_alive) ELSE boss_alive
        mobs == IF in_room
                THEN story_start(story_zero_hp(w5.mobs, ba), line_done)
                ELSE w5.mobs
    IN  /\ ~in_room => w1.next_id <= MaxSpawns + 1
        /\ in_room => w2.next_id <= 2 + Len(MinionKinds) * MaxSummons
        /\ exec # 0 =>
              \E k \in 1..Len(w2.mobs) :
                  w2.mobs[k].id = exec /\ w2.mobs[k].state = "attack_execute"
        /\ pattern # "projectile" =>
              \E k \in 1..Len(w2.mobs) :
                  w2.mobs[k].id = exec /\ w2.mobs[k].kind = "boss_self"
        /\ Len(w2.attacks) <= MaxAttacks
        /\ collides => \E k \in 1..Len(w4.attacks) : w4.attacks[k].dir # 0
        /\ mob_list' = mobs
        /\ mob_attack' = w5.attacks
        /\ player_attack' = w5.shots
        /\ next_id' = w5.next_id
        /\ shot_id' = w5.shot_id
        /\ damage_by' = w5.damage_by
        /\ boss_alive' = ba
        /\ frame_log' = w5.log
        /\ gone' = gone \cup (IdsOf(mob_list) \ IdsOf(mobs))
        /\ down_frames' = IF ~in_room \/ ba \/ boss_alive THEN 0
                          ELSE IF down_frames < MaxDownFrames THEN down_frames + 1
                          ELSE down_frames
        /\ UNCHANGED in_room
        /\ UNCHANGED exceptPool

\* The biomes _spawn_mob finds at the spawn point, by the subtype they give.
SpawnKinds == {"burster", "biter"}

\* World.update and Game.story in a World.
PoolWorldFrame ==
    /\ ~in_room
    /\ \E tick \in BOOLEAN, exec \in {0} \cup IdsOf(mob_list),
          fire \in (IF shot_id <= MaxShots THEN 0..2 ELSE {0}),
          collides \in (IF mob_attack # <<>> THEN BOOLEAN ELSE {FALSE}) :
          \E far \in (IF tick THEN 0..Len(mob_list) ELSE {0}),
             drawn_positive \in (IF tick THEN BOOLEAN ELSE {TRUE}) :
             \E kind \in (IF tick /\ drawn_positive THEN SpawnKinds ELSE {"burster"}),
                cell \in (IF tick /\ drawn_positive THEN {1, 2} ELSE {1}) :
                PoolFrame(tick, far, drawn_positive, kind, cell, exec, "projectile",
                          fire, collides, FALSE)

\* Room.update and Game.story in the Room: no game tick.
PoolRoomFrame ==
    /\ in_room
    /\ \E exec \in 0..(next_id - 1),
          fire \in (IF shot_id <= MaxShots THEN 0..2 ELSE {0}),
          collides \in (IF mob_attack # <<>> THEN BOOLEAN ELSE {FALSE}),
          line_completed \in
              {FALSE} \cup {\E k \in 1..Len(mob_list) :
                              mob_list[k].kind = "boss_self" /\ ~mob_list[k].start} :
          \E pattern \in (IF exec = 1 THEN BossSelfState ELSE {"projectile"}) :
             PoolFrame(FALSE, 0, TRUE, "burster", 1, exec, pattern, fire, collides,
                       line_completed)

PoolNext == PoolWorldFrame \/ PoolRoomFrame

\* --------------------------------------------- mob attacks on the player
MaxHazards == 2         \* the attacks appended to world.mob_attack in a run
MaxHazardTime == 300    \* the clock stops here

HazardSteps == {60, 100}         \* milliseconds between two player updates

\* ShockWave.attack_speed, in milliseconds
attack_speed == 100

\* ShockWave(...): it has a timer, it is no Projectile.
NewShockWave(id, t) ==
    [id |-> id, has_timer |-> TRUE, is_projectile |-> FALSE,
     timer |-> TimeKeeper(attack_speed, t)]

\* Projectile(...): no timer.
NewProjectile(id) ==
    [id |-> id, has_timer |-> FALSE, is_projectile |-> TRUE,
     timer |-> TimeKeeper(None, 0)]

\* TimeKeeper.reset
reset_not(tk, t) == tk
reset(tk, t) == [tk EXCEPT !.start_time = t]

\* The loop of Player._update_hp over list(world.mob_attack) from place i on,
\* on h = [list, calls, hit]: collided are the attacks whose collider meets
\* the player's.
RECURSIVE hazard_loop(_, _, _, _)
hazard_loop(h, i, t, collided) ==
    IF i > Len(h.list) THEN h
    ELSE LET a == h.list[i]
             applies == /\ a.id \in collided
                        /\ a.has_timer => is_finished(a.timer, t)
             a1 == IF applies /\ a.has_timer
                   THEN [a EXCEPT !.timer = reset(a.timer, t)] ELSE a
         IN  hazard_loop(
                 IF applies
                 THEN [list |-> [h.list EXCEPT ![i] = a1],
                       calls |-> [h.calls EXCEPT ![a.id] = Append(@, t)],
                       hit |-> h.hit \cup {a.id}]
                 ELSE h,
                 i + 1, t, collided)

\* Player._update_hp: the loop, then the removal of the Projectile objects
\* among the attacks whose damage was applied.
player_update_hp(list, calls, t, collided) ==
    LET h == hazard_loop([list |-> list, calls |-> calls, hit |-> {}], 1, t, collided)
    IN  [h EXCEPT !.list = SelectSeq(h.list,
                      LAMBDA a : ~(a.id \in h.hit /\ a.is_projectile))]

NoMeeting == [collided |-> {}, hit |-> {}]

HazardRest ==
    /\ hz_now = 0
    /\ hz_list = <<>>
    /\ hz_made = <<>>
    /\ hz_calls = [id \in 1..MaxHazards |-> <<>>]
    /\ hz_last = NoMeeting

HazardInit == HazardRest

\* A mob's attack_execute appends a ShockWave or a Projectile.
HazardAppend ==
    /\ Len(hz_made) < MaxHazards
    /\ \E a \in {NewShockWave(Len(hz_made) + 1, hz_now), NewProjectile(Len(hz_made) + 1)} :
          /\ hz_list' = Append(hz_list, a)
          /\ hz_made' = Append(hz_made, [has_timer |-> a.has_timer, t |-> hz_now])
    /\ hz_last' = NoMeeting
    /\ UNCHANGED <<hz_now, hz_calls>>
    /\ UNCHANGED exceptHazard

\* World._update_projectiles removes an attack that is no longer alive.
HazardExpire ==
    /\ \E i \in 1..Len(hz_list) : hz_list' = SeqWithout(hz_list, {hz_list[i]})
    /\ hz_last' = NoMeeting
    /\ UNCHANGED <<hz_now, hz_made, hz_calls>>
    /\ UNCHANGED exceptHazard

\* The next frame's Player.update: _update_hp at the frame's time.
PlayerUpdateHp ==
    /\ \E step \in HazardSteps, collided \in SUBSET IdsOf(hz_list) :
          LET t == hz_now + step
              h == player_update_hp(hz_list, hz_calls, t, collided)
          IN  /\ t <= MaxHazardTime
              /\ hz_now' = t
              /\ hz_list' = h.list
              /\ hz_calls' = h.calls
              /\ hz_last' = [collided |-> collided, hit |-> h.hit]
    /\ UNCHANGED hz_made
    /\ UNCHANGED exceptHazard

HazardNext == HazardAppend \/ HazardExpire \/ PlayerUpdateHp

\* ------------------------------------------------ the size of world.mob
MaxFar == 1             \* the live (and the dead) mobs one game tick finds too far
MaxDeaths == 2          \* the mobs that die in one frame's mob pass

SpawnSeed == 7
\* The candidate points pos of _spawn_mob, the player at (0, 0): one in each biome.
SpawnPoints == {<<-3000, -3000>>, <<-3000, 0>>, <<-3000, 3000>>, <<-3000, 5000>>}

\* The chain of _spawn_mob from the biome to the subtype ("none": no branch).
spawn_subtype(b) ==
    CASE b = "fire" -> "burster"
      [] b = "water" -> "biter"
      [] b = "air" -> "flutterer"
      [] b = "dirt" -> "plower"
      [] OTHER -> "none"

\* if len(self.mob) >= MOB_SPAWN_MAX: return
at_limit_above(n) == n > MOB_SPAWN_MAX
at_limit(n) == n >= MOB_SPAWN_MAX

Min(a, b) == IF a < b THEN a ELSE b

\* World._spawn_mob on s = [live, dead]: far_live live and far_dead dead mobs
\* are beyond MOB_DESPAWN_DISTANCE and are removed; below the limit and with
\* a positive draw the mob of the biome at pos is appended.  tick is the
\* record of the call.
spawn_mob_count(s, far_live, far_dead, drawn, pos) ==
    LET live == s.live - far_live
        dead == s.dead - far_dead
        b == get_biome_xy(SpawnSeed, pos[1], pos[2])
        kind == IF at_limit(live + dead) \/ ~drawn THEN "none" ELSE spawn_subtype(b)
        added == IF kind = "none" THEN 0 ELSE 1
    IN  [live |-> live + added, dead |-> dead,
         tick |-> [len |-> live + dead, live |-> live, drawn |-> drawn,
                   biome |-> b, added |-> added, kind |-> kind]]

NoTick == [len |-> 0, live |-> 0, drawn |-> FALSE, biome |-> "none", added |-> 0,
           kind |-> "none"]

SpawnRest ==
    /\ sp_live = 0
    /\ sp_dead = 0
    /\ sp_ticked = FALSE
    /\ sp_tick = NoTick

SpawnInit == SpawnRest

\* One round of the game tick loop of World.update: _game_tick calls
\* _spawn_mob.  Nothing moves between two rounds of one World.update, so only
\* the first round finds mobs that are too far.
GameTick ==
    /\ \E far_live \in 0..(IF sp_ticked THEN 0 ELSE Min(MaxFar, sp_live)),
          far_dead \in 0..(IF sp_ticked THEN 0 ELSE Min(MaxFar, sp_dead)),
          drawn \in BOOLEAN, pos \in SpawnPoints :
          LET s == spawn_mob_count([live |-> sp_live, dead |-> sp_dead],
                                   far_live, far_dead, drawn, pos)
          IN  /\ sp_live' = s.live
              /\ sp_dead' = s.dead
              /\ sp_tick' = s.tick
    /\ sp_ticked' = TRUE
    /\ UNCHANGED exceptSpawn

\* The rest of World.update: the mob loop of _refresh_entities removes the
\* dead mobs and updates the live ones, of which deaths die.
RefreshEntities ==
    /\ \E deaths \in 0..Min(MaxDeaths, sp_live) :
          /\ sp_live' = sp_live - deaths
          /\ sp_dead' = deaths
    /\ sp_ticked' = FALSE
    /\ UNCHANGED sp_tick
    /\ UNCHANGED exceptSpawn

SpawnNext == GameTick \/ RefreshEntities

\* ------------------------------------- the positions of a mob and the player
MaxMoveFrames == 3          \* the frames of a run
MaxMoveShots == 1           \* the player projectiles that meet the mob in a run
MoveSteps == {100, 4000}    \* dt of a frame: clock.tick(FPS_LIMIT), in milliseconds

WORLD_SIZE == 1000000000
RoomSize == 4096            \* Room(4096, 4096, ...)
OFFSET_MAX == 8192
BOSS_MINION_OFFSET == 200
MOB_DESPAWN_DISTANCE == 20000
INITIAL_MAX_SPEED == 500

\* world.width / 2 (and world.height / 2): the bound of the clamps.
half_size(room) == IF room THEN RoomSize \div 2 ELSE WORLD_SIZE \div 2

\* The player's spawn of World.__init__: two draws in -OFFSET_MAX..OFFSET_MAX.
PlayerSpawns == {<<0, 0>>}

\* The draws of random.uniform(1, 10) for the boss's pattern timer.
MoveDurations == {10000}

\* The direction keys held in a frame (none, d, a, s, w).
PlayerDirs == {<<0, 0>>, <<1, 0>>, <<-1, 0>>, <<0, 1>>, <<0, -1>>}

\* The least r with r * r >= n, for 0 <= n <= 46340 * 46340.
RECURSIVE CeilSqrtIn(_, _, _)
CeilSqrtIn(n, lo, hi) ==
    IF lo >= hi THEN lo
    ELSE LET mid == (lo + hi) \div 2
         IN  IF mid * mid >= n THEN CeilSqrtIn(n, lo, mid)
             ELSE CeilSqrtIn(n, mid + 1, hi)
CeilSqrt(n) == CeilSqrtIn(n, 0, 46340)
FloorSqrt(n) == LET r == CeilSqrt(n) IN IF r * r = n THEN r ELSE r - 1

\* Division rounding toward zero.
TruncDiv(a, b) == IF a >= 0 THEN a \div b ELSE -((-a) \div b)

\* utility.distance(self.x, self.y, player.x, player.y), rounded down: the
\* comparisons dist < view and dist < attack_distance are with whole numbers.
distance_floor(p, q) == FloorSqrt(Distance2(p[1], p[2], q[1], q[2]))

\* pygame.Vector2(p).move_towards(q, d): q when it is within d, else the point
\* at d from p on the segment to q.  The coordinates are whole pixels: a
\* fractional step is shortened, never lengthened.
move_towards(p, q, d) ==
    LET dx == q[1] - p[1]
        dy == q[2] - p[2]
        len2 == dx * dx + dy * dy
    IN  IF len2 = 0 \/ d * d >= len2 THEN q
        ELSE LET len == CeilSqrt(len2)
             IN  <<p[1] + TruncDiv(dx * d, len), p[2] + TruncDiv(dy * d, len)>>

clamp_axis(v, half) == IF v > half THEN half ELSE IF v < -half THEN -half ELSE v

\* The four ifs after the move of Mob.update; max/min of Player.update.
clamp(p, half) == <<clamp_axis(p[1], half), clamp_axis(p[2], half)>>

\* The speeds tuple of each subtype (ground, water, air), in pixels per second;
\* BossSelf.update sets the boss's tuple by its pattern.
speeds(m) ==
    CASE m.kind = "burster"   -> <<450, 10, 500>>
      [] m.kind = "biter"     -> <<10, 500, 10>>
      [] m.kind = "flutterer" -> <<10, 10, 1500>>
      [] m.kind = "plower"    -> <<150, 10, 300>>
      [] m.kind = "boss_self" -> IF m.next_attack = "wave" THEN <<900, 0, 0>>
                                 ELSE <<400, 0, 0>>
      [] OTHER -> <<0, 0, 0>>

\* biome.get_biome at the mob: a Room has no noise generators.
mob_biome(room, p) == IF room THEN "fifth_biome" ELSE get_biome_xy(SpawnSeed, p[1], p[2])

\* self.speed of Mob.update by the biome under the mob.
biome_speed(m, b) ==
    IF b = "water" THEN speeds(m)[2]
    ELSE IF b = "air" THEN speeds(m)[3]
    ELSE speeds(m)[1]

\* A move test that also asks a chasing mob to detect the player.
moves_when_detected(m) ==
    m.detect_player /\ (m.state = "chase" \/ m.move_while_attack)

\* The move test of Mob.update on the state after the transitions.
moves(m) ==
    \/ m.state = "chase" /\ ~m.move_while_attack
    \/ m.move_while_attack /\ m.detect_player

\* The damage of a player projectile that overlaps the mob's collider, in tenths.
ShotDamage == 1000

NoUpdate ==
    [updated |-> FALSE, pre |-> <<0, 0>>, post |-> <<0, 0>>, hp_collider |-> <<0, 0>>,
     d |-> 0, player |-> <<0, 0>>, palive |-> FALSE, state |-> "idle",
     detect |-> FALSE, mwa |-> FALSE, shot |-> FALSE, fresh |-> FALSE,
     next_attack |-> "projectile", boss_adds |-> <<>>]

\* angle + i * 5 of the boss's fan: angle is math.degrees(math.atan2(dy, dx)), kept
\* as the pair it is computed from, or the draw random.uniform(0, 360) when the
\* boss stands on the player.
fan_angle(dx, dy, i) ==
    [of |-> IF dx = 0 /\ dy = 0 THEN "uniform" ELSE <<dy, dx>>, plus |-> i * 5]

boss_fan_four(q, player) ==
    [i \in 1..4 |-> [what |-> "Projectile", x |-> q[1], y |-> q[2], vel |-> 1000,
                     angle |-> fan_angle(player[1] - q[1], player[2] - q[2], i - 3),
                     damage |-> 5, shoot_distance |-> 1000]]

\* for i in range(-2, 3): world.mob_attack.append(Projectile(...))
boss_fan(q, player) ==
    [i \in 1..5 |-> [what |-> "Projectile", x |-> q[1], y |-> q[2], vel |-> 1000,
                     angle |-> fan_angle(player[1] - q[1], player[2] - q[2], i - 3),
                     damage |-> 5, shoot_distance |-> 1000]]

\* The block of BossSelf.update after super().update(): what the boss m at q
\* appends to world.mob_attack and world.mob, in order (nothing for a mob of
\* another subtype).
boss_adds(m, q, player) ==
    IF m.kind # "boss_self" \/ m.state # "attack_execute" THEN <<>>
    ELSE CASE m.next_attack = "projectile" -> boss_fan(q, player)
           [] m.next_attack = "wave" ->
                <<[what |-> "ShockWave", x |-> q[1], y |-> q[2]]>>
           [] m.next_attack = "summon_minions" ->
                <<[what |-> "Burster", x |-> q[1] - BOSS_MINION_OFFSET, y |-> q[2]],
                  [what |-> "Biter", x |-> q[1] + BOSS_MINION_OFFSET, y |-> q[2]],
                  [what |-> "Flutterer", x |-> q[1], y |-> q[2] + BOSS_MINION_OFFSET],
                  [what |-> "Plower", x |-> q[1], y |-> q[2] - BOSS_MINION_OFFSET]>>

\* speed * dt of the move, in whole pixels.
step_length(room, m, p, dt) == (biome_speed(m, mob_biome(room, p)) * dt) \div 1000

\* A move outside the test of world.player.alive.
moved_to_dead_or_alive(room, m, p, player, palive, dt) ==
    IF moves(m)
    THEN clamp(move_towards(p, player, step_length(room, m, p, dt)), half_size(room))
    ELSE p

\* x, y after the move and the clamp of Mob.update, for the mob m after its
\* transitions.
moved_to(room, m, p, player, palive, dt) ==
    IF palive /\ moves(m)
    THEN clamp(move_towards(p, player, step_length(room, m, p, dt)), half_size(room))
    ELSE p

\* What a call of Mob.update leaves: update_hp tests the player projectiles
\* against the collider at c, then collider.update puts the collider at q.
updated_to(after, p, c, q, d, player, palive, shot, fresh) ==
    [mob |-> after, pos |-> q, collider |-> q,
     last |-> [updated |-> TRUE, pre |-> p, post |-> q, hp_collider |-> c,
               d |-> d, player |-> player, palive |-> palive,
               state |-> after.state, detect |-> after.detect_player,
               mwa |-> after.move_while_attack, shot |-> shot, fresh |-> fresh,
               next_attack |-> after.next_attack,
               boss_adds |-> boss_adds(after, q, player)]]

\* The part of Mob.update after the transitions and the damage, on the mob
\* `after` they leave.
update_from(room, after, p, c, player, palive, dt, shot, fresh) ==
    updated_to(after, p, c, moved_to(room, after, p, player, palive, dt),
               step_length(room, after, p, dt), player, palive, shot, fresh)

\* <subtype>.update(world, dt) of the mob m at p with its collider at c: the mob,
\* its position and its collider after the call, and the record of the call.
\* The order is the order of Mob.update: flags and transitions, move and clamp,
\* update_hp, collider.update.  A boss that has not started does nothing.
update_at(room, m, p, c, player, palive, t, dt, shot, pattern, duration, fresh) ==
    IF m.kind = "boss_self" /\ ~m.start
    THEN [mob |-> m, pos |-> p, collider |-> c, last |-> NoUpdate]
    ELSE update_from(room,
                     SubtypeUpdate(m, distance_floor(p, player), palive, t,
                                   IF shot THEN <<ShotDamage>> ELSE <<>>,
                                   pattern, duration),
                     p, c, player, palive, dt, shot, fresh)

\* Player.update: the velocity is cut to speed * dt, the position is clamped.
player_move(room, player, palive, dir, dt) ==
    IF ~palive THEN player
    ELSE LET d == (INITIAL_MAX_SPEED * dt) \div 1000
         IN  clamp(<<player[1] + dir[1] * d, player[2] + dir[2] * d>>, half_size(room))

\* utility.distance(m, player) > MOB_DESPAWN_DISTANCE of _spawn_mob.
too_far(p, player) ==
    Distance2(p[1], p[2], player[1], player[2])
        > MOB_DESPAWN_DISTANCE * MOB_DESPAWN_DISTANCE

\* The minions of a summon, in the order of the appends: subtype and offset.
Minions ==
    <<[kind |-> "burster", off |-> <<-BOSS_MINION_OFFSET, 0>>],
      [kind |-> "biter", off |-> <<BOSS_MINION_OFFSET, 0>>],
      [kind |-> "flutterer", off |-> <<0, BOSS_MINION_OFFSET>>],
      [kind |-> "plower", off |-> <<0, -BOSS_MINION_OFFSET>>]>>

MoveRest ==
    /\ mv_room = FALSE
    /\ mv_now = 0
    /\ mv_player = <<0, 0>>
    /\ mv_alive = TRUE
    /\ mv_mob = NewMob("mob", 0, "projectile", 0)
    /\ mv_in_pool = FALSE
    /\ mv_pos = <<0, 0>>
    /\ mv_collider = <<0, 0>>
    /\ mv_last = NoUpdate
    /\ mv_shots = 0
    /\ mv_frames = 0

\* World.__init__ (no mob yet, the player at its spawn) or Room.__init__ (the
\* boss at (0, 0), the player at (0, 400)).
MoveInit ==
    /\ mv_now = 0
    /\ mv_alive = TRUE
    /\ mv_last = NoUpdate
    /\ mv_shots = 0
    /\ mv_frames = 0
    /\ \/ /\ mv_room = FALSE
          /\ mv_player \in PlayerSpawns
          /\ mv_mob = NewMob("mob", 0, "projectile", 0)
          /\ mv_in_pool = FALSE
          /\ mv_pos = <<0, 0>>
          /\ mv_collider = <<0, 0>>
       \/ /\ mv_room = TRUE
          /\ mv_player = <<0, 400>>
          /\ \E na \in BossSelfState, cd \in MoveDurations :
                mv_mob = NewMob("boss_self", 0, na, cd)
          /\ mv_in_pool = TRUE
          /\ mv_pos = <<0, 0>>
          /\ mv_collider = <<0, 0>>

\* The first update of a minion built at the point `at` in this frame: the mob
\* loop reaches the mobs appended during the pass.
minion_update(room, kind, at, player, palive, t, dt) ==
    update_at(room, NewMob(kind, t, "projectile", 0), at, at, player, palive, t, dt,
              FALSE, "projectile", 0, TRUE)

\* The draws of a boss update (random.choice, random.uniform), made only when
\* the pattern timer is over.
MoveDraws(m, t) ==
    IF m.kind = "boss_self" /\ m.start /\ is_finished(m.attack_change_timer, t)
    THEN BossSelfState \X MoveDurations
    ELSE {<<m.next_attack, m.attack_change_timer.duration>>}

\* The rest of a frame after the game tick, for the mob m at p (in world.mob
\* when here): the mob pass of _refresh_entities / _render_entities_room, then
\* Player.update.
FrameFrom(m, p, c, here, t, dt, fresh) ==
    \E dir \in PlayerDirs, shot \in BOOLEAN :
      /\ shot => mv_shots < MaxMoveShots
      /\ mv_shots' = IF shot THEN mv_shots + 1 ELSE mv_shots
      /\ mv_now' = t
      /\ mv_frames' = mv_frames + 1
      /\ mv_player' = player_move(mv_room, mv_player, mv_alive, dir, dt)
      /\ UNCHANGED <<mv_room, mv_alive>>
      /\ IF ~here
         THEN /\ ~shot
              /\ mv_in_pool' = FALSE
              /\ mv_last' = NoUpdate
              /\ UNCHANGED <<mv_mob, mv_pos, mv_collider>>
         ELSE IF ~m.alive
         THEN /\ ~shot
              /\ mv_in_pool' = FALSE
              /\ mv_last' = NoUpdate
              /\ mv_mob' = m /\ mv_pos' = p /\ mv_collider' = c
         ELSE \E draw \in MoveDraws(m, t) :
              \E u \in {update_at(mv_room, m, p, c, mv_player, mv_alive, t, dt, shot,
                                  draw[1], draw[2], fresh)} :
                /\ mv_in_pool' = TRUE
                /\ \/ /\ mv_mob' = u.mob
                      /\ mv_pos' = u.pos
                      /\ mv_collider' = u.collider
                      /\ mv_last' = u.last
                   \/ /\ SubtypeEffect(m, u.mob).minions > 0
                      /\ \E k \in 1..Len(Minions) :
                         \E v \in {minion_update(mv_room, Minions[k].kind,
                                                 <<u.pos[1] + Minions[k].off[1],
                                                   u.pos[2] + Minions[k].off[2]>>,
                                                 mv_player, mv_alive, t, dt)} :
                           /\ mv_mob' = v.mob
                           /\ mv_pos' = v.pos
                           /\ mv_collider' = v.collider
                           /\ mv_last' = v.last

\* World.update: the game tick (_spawn_mob removes the mob when it is too far,
\* and may add the observed mob), then the rest of the frame.
WorldFrame ==
    /\ ~mv_room
    /\ mv_frames < MaxMoveFrames
    /\ \E dt \in MoveSteps :
         LET t == mv_now + dt
             kept == mv_in_pool /\ ~too_far(mv_pos, mv_player)
         IN  \/ FrameFrom(mv_mob, mv_pos, mv_collider, kept, t, dt, FALSE)
             \/ /\ ~kept
                /\ \E off \in SpawnPoints :
                     LET at == <<mv_player[1] + off[1], mv_player[2] + off[2]>>
                         kind == spawn_subtype(get_biome_xy(SpawnSeed, at[1], at[2]))
                     IN  /\ kind # "none"
                         /\ FrameFrom(NewMob(kind, t, "projectile", 0), at, at, TRUE,
                                      t, dt, TRUE)
    /\ UNCHANGED exceptMove

\* Room.update: the mob pass, with the minions a summon appends, then
\* Player.update.
RoomFrame ==
    /\ mv_room
    /\ mv_frames < MaxMoveFrames
    /\ \E dt \in MoveSteps :
         FrameFrom(mv_mob, mv_pos, mv_collider, mv_in_pool, mv_now + dt, dt, FALSE)
    /\ UNCHANGED exceptMove

\* The line "before boss" of the story is over: the boss starts.
BossStart ==
    /\ mv_room /\ mv_in_pool
    /\ mv_mob.kind = "boss_self" /\ ~mv_mob.start
    /\ mv_mob' = [mv_mob EXCEPT !.start = TRUE]
    /\ UNCHANGED <<mv_room, mv_now, mv_player, mv_alive, mv_in_pool, mv_pos,
                   mv_collider, mv_last, mv_shots, mv_frames>>
    /\ UNCHANGED exceptMove

\* The player's hit points reach 0.
PlayerDeath ==
    /\ mv_alive
    /\ mv_frames > 0
    /\ mv_alive' = FALSE
    /\ UNCHANGED <<mv_room, mv_now, mv_player, mv_mob, mv_in_pool, mv_pos,
                   mv_collider, mv_last, mv_shots, mv_frames>>
    /\ UNCHANGED exceptMove

MoveNext == WorldFrame \/ RoomFrame \/ BossStart \/ PlayerDeath

\* ------------------------------------------------- the game tick timer
MaxTimerFrames == 3             \* the frames of a run
\* The milliseconds between the clock readings of two frames.
FrameGaps == {16, 50, 100, 250, 300, 500}

\* 1.0 as a float of the model: the floats below 2 s are whole multiples of
\* 1 / Second, with MantissaBits significant bits.
Second == 2 ^ 17

\* The float nearest to n / d (ties to the even significand).
RoundRatio(n, d) ==
    LET u == Ulp(n \div d)
        q == n \div (d * u)
        r == n % (d * u)
    IN  IF 2 * r < d * u THEN q * u
        ELSE IF 2 * r > d * u THEN (q + 1) * u
        ELSE IF q % 2 = 0 THEN q * u ELSE (q + 1) * u

\* GAME_TICK_INTERVAL: float = 0.1
GAME_TICK_INTERVAL == RoundRatio(Second, 10)

\* TimeKeeper.elapsed_time: (get_ticks() - start_time) / 1000
elapsed_time(start, t) == RoundRatio((t - start) * Second, 1000)

\* TimeKeeper.is_finished of the tick timer
tick_is_finished(start, t) == elapsed_time(start, t) >= GAME_TICK_INTERVAL

\* int(elapsed_time() // duration): the floor of the quotient of the two floats
tick_count(start, t) == elapsed_time(start, t) \div GAME_TICK_INTERVAL

\* range(max(1, tick_count)): the calls of _game_tick in the frame
tick_runs(start, t) == IF tick_count(start, t) > 1 THEN tick_count(start, t) ELSE 1

NoFrame == [seen |-> FALSE, e |-> 0, ran |-> 0, reset |-> FALSE]

TimerRest ==
    /\ tm_now = 0
    /\ tm_start = 0
    /\ tm_last = NoFrame
    /\ tm_frames = 0

\* World.__init__: game_tick_timer = TimeKeeper(duration=GAME_TICK_INTERVAL)
TimerInit == TimerRest

\* The game tick of World.update, read at clock time t.
TickAt(t) ==
    /\ tm_now' = t
    /\ tm_frames' = tm_frames + 1
    /\ IF tick_is_finished(tm_start, t)
       THEN /\ tm_last' = [seen |-> TRUE, e |-> t - tm_start,
                           ran |-> tick_runs(tm_start, t), reset |-> TRUE]
            /\ tm_start' = t
       ELSE /\ tm_last' = [seen |-> TRUE, e |-> t - tm_start, ran |-> 0,
                           reset |-> FALSE]
            /\ tm_start' = tm_start

GameTickFrame ==
    /\ tm_frames < MaxTimerFrames
    /\ \E gap \in FrameGaps : TickAt(tm_now + gap)
    /\ UNCHANGED exceptTimer

TimerNext == GameTickFrame

\* ------------------------------------- the mobs of a World by position
MaxSpawnTicks == 2          \* the calls of _spawn_mob in a run
MaxPlayerMoves == 1         \* the player moves in a run

\* dt of the frames in which the player moves, in milliseconds: a frame of the
\* usual length and a frame after a long stall.
LongSteps == {100, 24000}

\* pos - player of _spawn_mob: dist in MOB_SPAWN_DISTANCE = (3000, 10000), the
\* ends included, at some angle.
SpawnOffsets == {<<3000, 0>>, <<0, -10000>>, <<-6000, 8000>>, <<-3000, -4000>>}

keep_all(mobs, player) == mobs

\* The two loops of _spawn_mob over the mobs beyond MOB_DESPAWN_DISTANCE:
\* for m in far: self.mob.remove(m)
remove_far(mobs, player) ==
    LET keep(p) == ~too_far(p, player) IN SelectSeq(mobs, keep)

\* World._spawn_mob on the pool mobs: the far mobs are removed; below
\* MOB_SPAWN_MAX, when random.random() > 0 (drawn), a mob is appended at
\* player + off if the biome there has a subtype.
spawn_mob_at(mobs, player, drawn, off) ==
    LET kept == remove_far(mobs, player)
        pos == <<player[1] + off[1], player[2] + off[2]>>
        kind == spawn_subtype(get_biome_xy(SpawnSeed, pos[1], pos[2]))
        adds == ~at_limit(Len(kept)) /\ drawn /\ kind # "none"
    IN  [pool |-> IF adds THEN Append(kept, pos) ELSE kept,
         removed |-> Len(mobs) - Len(kept),
         added |-> adds,
         pos |-> pos]

NoSpawnCall ==
    [ran |-> FALSE, pool |-> <<>>, player |-> <<0, 0>>, removed |-> 0,
     added |-> FALSE, pos |-> <<0, 0>>]

DespawnRest ==
    /\ ds_player = <<0, 0>>
    /\ ds_mobs = <<>>
    /\ ds_last = NoSpawnCall
    /\ ds_ticks = 0
    /\ ds_moves = 0

\* World.__init__: the player at its spawn, world.mob empty.
DespawnInit ==
    /\ ds_player \in PlayerSpawns
    /\ ds_mobs = <<>>
    /\ ds_last = NoSpawnCall
    /\ ds_ticks = 0
    /\ ds_moves = 0

\* One call of World._game_tick, that is of _spawn_mob.
SpawnMobCall ==
    /\ ds_ticks < MaxSpawnTicks
    /\ \E drawn \in BOOLEAN, off \in SpawnOffsets :
         \E r \in {spawn_mob_at(ds_mobs, ds_player, drawn, off)} :
           /\ ds_mobs' = r.pool
           /\ ds_last' = [ran |-> TRUE, pool |-> r.pool, player |-> ds_player,
                          removed |-> r.removed, added |-> r.added, pos |-> r.pos]
    /\ ds_ticks' = ds_ticks + 1
    /\ UNCHANGED <<ds_player, ds_moves>>
    /\ UNCHANGED exceptDespawn

\* Player.update of a frame: the player moves by speed * dt along the keys held.
PlayerWalk ==
    /\ ds_moves < MaxPlayerMoves
    /\ \E dir \in PlayerDirs \ {<<0, 0>>}, dt \in LongSteps :
         ds_player' = player_move(FALSE, ds_player, TRUE, dir, dt)
    /\ ds_moves' = ds_moves + 1
    /\ UNCHANGED <<ds_mobs, ds_last, ds_ticks>>
    /\ UNCHANGED exceptDespawn

\* _refresh_entities removes a mob whose alive flag is false.
DeadMobRemoved ==
    /\ \E i \in 1..Len(ds_mobs) :
         ds_mobs' = SubSeq(ds_mobs, 1, i - 1) \o SubSeq(ds_mobs, i + 1, Len(ds_mobs))
    /\ UNCHANGED <<ds_player, ds_last, ds_ticks, ds_moves>>
    /\ UNCHANGED exceptDespawn

DespawnNext == SpawnMobCall \/ PlayerWalk \/ DeadMobRemoved

\* ------------------------------------- a chunk's decorations, draw by draw
MaxDecos == 1           \* the decorations _generate appends to the chunk

\* The chunk coordinates: centres of cells on both sides of zero.
DecoCoords == {<<512, 512>>, <<-512, 1536>>, <<-1536, -512>>}

\* Values of random.randint(-chunk_size // 2, chunk_size // 2): both ends, the
\* value next to the upper end, the middle.
JitterDraws == {-(CHUNK_SIZE \div 2), 0, CHUNK_SIZE \div 2 - 1, CHUNK_SIZE \div 2}

\* The places of _generate where a decoration is appended.
DecoSlots == {"grass", "tree", "fire", "coral", "portal"}

WaterNames == {"red_coral_reef", "pink_coral_reef", "yellow_coral_reef", "seaweed"}

\* A generator that appends in every biome.
deco_names_any_biome(slot, ob) ==
    CASE slot = "grass"  -> {"grass", "dry_grass", "seaweed"}
      [] slot = "tree"   -> {"oak_tree", "birch_tree", "acacia_tree", "jungle_tree"}
      [] slot = "fire"   -> {"fire", "strong_fire", "blue_fire"}
      [] slot = "coral"  -> WaterNames \ {"seaweed"}
      [] slot = "portal" -> {"portal"}

\* The names the slot can append at a point of biome ob, over the draws of
\* random.choice and random.random; none where the biome test fails.
deco_names(slot, ob) ==
    CASE slot = "grass"  -> IF ob = "dirt" THEN {"grass", "dry_grass"}
                            ELSE IF ob = "water" THEN {"seaweed"} ELSE {}
      [] slot = "tree"   -> IF ob = "dirt"
                            THEN {"oak_tree", "birch_tree", "acacia_tree", "jungle_tree"}
                            ELSE {}
      [] slot = "fire"   -> IF ob = "fire" THEN {"fire", "strong_fire", "blue_fire"}
                            ELSE {}
      [] slot = "coral"  -> IF ob = "water" THEN WaterNames \ {"seaweed"} ELSE {}
      [] slot = "portal" -> {"portal"}

\* The decorations the slot can append to the chunk at c for the draws jx, jy
\* of ox, oy.
decorations(seed, c, slot, jx, jy) ==
    {Deco(c[1] + jx, c[2] + jy, name) :
        name \in deco_names(slot, get_biome_xy(seed, c[1] + jx, c[2] + jy))}

\* The test of the chunk loop of World._refresh_entities on the decoration e,
\* by its name (and, for a portal, by the biome at its position).
exposed_by_name(e, pb, seed) ==
    IF pb # "water"
    THEN /\ e.name \notin WaterNames
         /\ ~(e.name = "portal" /\ get_biome_xy(seed, e.x, e.y) = "water")
    ELSE \/ e.name \in WaterNames
         \/ e.name = "portal" /\ get_biome_xy(seed, e.x, e.y) = "water"

DecoRest ==
    /\ dc_seed = 0
    /\ dc_chunk = <<0, 0>>
    /\ dc_entities = <<>>
    /\ dc_exposed = <<>>
    /\ dc_pb = "dirt"
    /\ dc_framed = FALSE

\* Chunk.__init__ before _generate, in a World of some seed.
DecoInit ==
    /\ dc_seed \in WorldSeeds
    /\ dc_chunk \in DecoCoords
    /\ dc_entities = <<>>
    /\ dc_exposed = <<>>
    /\ dc_pb = "dirt"
    /\ dc_framed = FALSE

\* One append of Chunk._generate.
ChunkDecorate ==
    /\ Len(dc_entities) < MaxDecos
    /\ \E slot \in DecoSlots, jx \in JitterDraws, jy \in JitterDraws :
         \E e \in decorations(dc_seed, dc_chunk, slot, jx, jy) :
            dc_entities' = Append(dc_entities, e)
    /\ dc_framed' = FALSE
    /\ UNCHANGED <<dc_seed, dc_chunk, dc_exposed, dc_pb>>
    /\ UNCHANGED exceptDeco

\* The chunk loop of World._refresh_entities, with the player in the biome pb.
RefreshDecorations ==
    /\ \E pb \in {"dirt", "fire", "water", "air"} :
         /\ dc_pb' = pb
         /\ dc_exposed' = SelectSeq(dc_entities,
                                    LAMBDA e : exposed_by_name(e, pb, dc_seed))
    /\ dc_framed' = TRUE
    /\ UNCHANGED <<dc_seed, dc_chunk, dc_entities>>
    /\ UNCHANGED exceptDeco

DecoNext == ChunkDecorate \/ RefreshDecorations

\* ------------------------------------ the player's elements and attacks
MaxUpdates == 3         \* the calls of Player.update in a run

\* The counters a run starts from: empty, or charged to element_max.
ElementStarts == {0, 100}

\* Offsets of the scaled mouse position from the screen centre.
Cursors == {<<0, 0>>, <<1, 0>>, <<0, -3>>}

PlayerBiomes == {"fire", "water", "dirt", "air", "fifth_biome"}

\* Player.__init__: the fields the charge and the attacks use.
NewPlayer(at) ==
    [x |-> at[1], y |-> at[2], hp |-> 100, max_hp |-> 100, element_max |-> 100,
     charging |-> FALSE, fire |-> 0, water |-> 0, dirt |-> 0, air |-> 0,
     selement |-> 0, selected_attack_code |-> 0, ended |-> FALSE]

\* attack_type(selected_attack_code)
attack_type(code) ==
    CASE code = 0 -> "fire" [] code = 1 -> "water" [] code = 2 -> "dirt"
      [] code = 3 -> "air" [] code = 4 -> "selement"

\* Player._charge_element: f is keys[K_f], finished is
\* element_charge_timer.is_finished(), b is player_biome.
_charge_element(p, f, finished, b) ==
    IF ~f THEN [p EXCEPT !.charging = FALSE]
    ELSE IF ~finished THEN [p EXCEPT !.charging = TRUE]
    ELSE LET q == [p EXCEPT !.charging = TRUE] IN
         IF b = "fire" /\ q.fire < q.element_max THEN [q EXCEPT !.fire = @ + 1]
         ELSE IF b = "water" /\ q.water < q.element_max THEN [q EXCEPT !.water = @ + 1]
         ELSE IF b = "dirt" /\ q.dirt < q.element_max THEN [q EXCEPT !.dirt = @ + 1]
         ELSE IF b = "air" /\ q.air < q.element_max THEN [q EXCEPT !.air = @ + 1]
         ELSE IF b = "fifth_biome"
         THEN [q EXCEPT
                 !.fire = IF q.fire < q.element_max THEN @ + 1 ELSE @,
                 !.water = IF q.water < q.element_max THEN @ + 1 ELSE @,
                 !.dirt = IF q.dirt < q.element_max THEN @ + 1 ELSE @,
                 !.air = IF q.air < q.element_max THEN @ + 1 ELSE @]
         ELSE q

\* Player._select_attack_type: wheel is the sum of the wheel events (button 4:
\* -1, button 5: +1); Python's % gives a result in 0..modulo-1.
_select_attack_type(p, wheel) ==
    [p EXCEPT !.selected_attack_code =
        (@ + wheel) % (IF p.selement > 0 THEN 5 ELSE 4)]

\* Player._shoot_projectile on s = [p, pool]: the append of
\* entities.Projectile(self.x, self.y, name, speed, angle, image, damage,
\* lifetime) is in the else branch of the test dx == 0 and dy == 0; the angle
\* atan2(dy, dx) of the cursor offset is kept as the offset.
_shoot_projectile(s, name, speed, damage, lifetime, cursor) ==
    IF cursor = <<0, 0>> THEN s
    ELSE [s EXCEPT !.pool = Append(@,
            [x |-> s.p.x, y |-> s.p.y, name |-> name, speed |-> speed,
             angle |-> cursor, damage |-> damage, lifetime |-> lifetime])]

\* Player._handle_left_click on s = [p, pool].
_handle_left_click(s, cursor) ==
    LET p == s.p
        sel == attack_type(p.selected_attack_code)
    IN  IF sel = "fire" /\ p.fire >= 1
        THEN _shoot_projectile([s EXCEPT !.p.fire = @ - 1],
                               "player_fire_ball", 500, 10, 1000, cursor)
        ELSE IF sel = "dirt" /\ p.dirt >= 5 THEN [s EXCEPT !.p.dirt = @ - 5]
        ELSE IF sel = "water" /\ p.water >= 5 /\ p.hp < p.max_hp
        THEN [s EXCEPT !.p.water = @ - 5, !.p.hp = @ + 1]
        ELSE IF sel = "air" /\ p.air >= 1 THEN [s EXCEPT !.p.air = @ - 5]
        ELSE IF sel = "selement" /\ p.selement >= 1 THEN [s EXCEPT !.p.ended = TRUE]
        ELSE s

\* Player._handle_right_click on s = [p, pool]; portal: _find_closest_portal
\* finds one.
_handle_right_click(s, cursor, portal) ==
    LET p == s.p
        sel == attack_type(p.selected_attack_code)
    IN  IF sel = "fire" /\ p.fire >= 5 /\ p.dirt >= 1
        THEN _shoot_projectile([s EXCEPT !.p.fire = @ - 5, !.p.dirt = @ - 1],
                               "player_magma_arrow", 1000, 90, 2000, cursor)
        ELSE IF sel = "dirt" /\ p.dirt >= 10 /\ p.fire >= 1 /\ p.air >= 1 /\ p.water >= 1
        THEN [s EXCEPT !.p.dirt = @ - 10, !.p.fire = @ - 1,
                       !.p.water = @ - 1, !.p.air = @ - 1]
        ELSE IF sel = "water" /\ p.water >= 100 /\ p.dirt >= 50 /\ p.air >= 50
                /\ p.fire >= 50 /\ p.hp # p.max_hp
        THEN [s EXCEPT !.p.water = @ - 100, !.p.dirt = @ - 50, !.p.fire = @ - 50,
                       !.p.air = @ - 50, !.p.hp = p.max_hp]
        ELSE IF sel = "air" /\ p.air >= 30 /\ p.fire >= 10 /\ p.water >= 10
                /\ p.dirt >= 10
        THEN IF portal
             THEN [s EXCEPT !.p.air = @ - 30, !.p.fire = @ - 10,
                            !.p.water = @ - 10, !.p.dirt = @ - 10]
             ELSE s
        ELSE IF sel = "selement" /\ p.selement >= 1 /\ p.fire >= 100 /\ p.water >= 100
                /\ p.dirt >= 100 /\ p.air >= 100
        THEN [s EXCEPT !.p.fire = @ - 100, !.p.water = @ - 100, !.p.dirt = @ - 100,
                       !.p.air = @ - 100, !.p.ended = TRUE]
        ELSE s

\* Player._attack: btn is the button of the last MOUSEBUTTONDOWN event with
\* button 1 or 3 (0: none); no attack while charging.
_attack(s, btn, cursor, portal) ==
    IF s.p.charging THEN s
    ELSE IF btn = 1 THEN _handle_left_click(s, cursor)
    ELSE IF btn = 3 THEN _handle_right_click(s, cursor, portal)
    ELSE s

ElemRest ==
    /\ pe_player = NewPlayer(<<0, 0>>)
    /\ pe_pool = <<>>
    /\ pe_updates = 0

\* A living player of a run under way: the counters are empty or full, the
\* hit points full or one below, a selement picked up or not.
ElemInit ==
    /\ \E at \in PlayerSpawns, fire \in ElementStarts, water \in ElementStarts,
          dirt \in ElementStarts, air \in ElementStarts,
          selement \in {0, 1}, hp \in {99, 100} :
          pe_player = [NewPlayer(at) EXCEPT !.fire = fire, !.water = water,
                                            !.dirt = dirt, !.air = air,
                                            !.selement = selement, !.hp = hp]
    /\ pe_pool = <<>>
    /\ pe_updates = 0

\* Player.update of a living player that does not move: _charge_element,
\* _select_attack_type, _attack.  An input is drawn where the code reads it
\* (no click is read while charging: _attack returns first).
PlayerUpdate ==
    /\ pe_updates < MaxUpdates
    /\ ~pe_player.ended
    /\ \E f \in BOOLEAN, wheel \in {-1, 0, 1} :
       \E finished \in (IF f THEN BOOLEAN ELSE {FALSE}),
          btn \in (IF f THEN {0} ELSE {0, 1, 3}) :
       \E b \in (IF finished THEN PlayerBiomes ELSE {"dirt"}),
          cursor \in (IF btn # 0 THEN Cursors ELSE {<<1, 0>>}),
          portal \in (IF btn = 3 THEN BOOLEAN ELSE {FALSE}) :
          \E s \in {_attack([p |-> _select_attack_type(
                                     _charge_element(pe_player, f, finished, b), wheel),
                             pool |-> pe_pool], btn, cursor, portal)} :
             /\ pe_player' = s.p
             /\ pe_pool' = s.pool
    /\ pe_updates' = pe_updates + 1
    /\ UNCHANGED exceptElem

ElemNext == PlayerUpdate

InitMob ==
    /\ MobInit
    /\ ProjRest /\ WorldRest /\ ChunkRest /\ GenRest
    /\ BioRest /\ PoolRest /\ HazardRest /\ SpawnRest /\ MoveRest
    /\ TimerRest /\ DespawnRest /\ DecoRest /\ ElemRest

InitProj ==
    /\ ProjInit
    /\ MobRest /\ WorldRest /\ ChunkRest /\ GenRest
    /\ BioRest /\ PoolRest /\ HazardRest /\ SpawnRest /\ MoveRest
    /\ TimerRest /\ DespawnRest /\ DecoRest /\ ElemRest

InitWorld ==
    /\ WorldInit
    /\ MobRest /\ ProjRest /\ ChunkRest /\ GenRest
    /\ BioRest /\ PoolRest /\ HazardRest /\ SpawnRest /\ MoveRest
    /\ TimerRest /\ DespawnRest /\ DecoRest /\ ElemRest

InitChunk ==
    /\ ChunkInit
    /\ MobRest /\ ProjRest /\ WorldRest /\ GenRest
    /\ BioRest /\ PoolRest /\ HazardRest /\ SpawnRest /\ MoveRest
    /\ TimerRest /\ DespawnRest /\ DecoRest /\ ElemRest

InitGen ==
    /\ GenInit
    /\ MobRest /\ ProjRest /\ WorldRest /\ ChunkRest
    /\ BioRest /\ PoolRest /\ HazardRest /\ SpawnRest /\ MoveRest
    /\ TimerRest /\ DespawnRest /\ DecoRest /\ ElemRest

SpecMob == InitMob /\ [][MobNext]_vars

SpecProj == InitProj /\ [][ProjNext]_vars

SpecWorld == InitWorld /\ [][WorldNext]_vars

SpecChunk == InitChunk /\ [][ChunkNext]_vars

SpecGen == InitGen /\ [][GenNext]_vars

InitBio ==
    /\ BioInit
    /\ MobRest /\ ProjRest /\ WorldRest /\ ChunkRest
    /\ GenRest /\ PoolRest /\ HazardRest /\ SpawnRest /\ MoveRest
    /\ TimerRest /\ DespawnRest /\ DecoRest /\ ElemRest

SpecBiome == InitBio /\ [][BioNext]_vars

InitPool ==
    /\ PoolInit
    /\ MobRest /\ ProjRest /\ WorldRest /\ ChunkRest
    /\ GenRest /\ BioRest /\ HazardRest /\ SpawnRest /\ MoveRest
    /\ TimerRest /\ DespawnRest /\ DecoRest /\ ElemRest

SpecPool == InitPool /\ [][PoolNext]_vars

InitHazard ==
    /\ HazardInit
    /\ MobRest /\ ProjRest /\ WorldRest /\ ChunkRest
    /\ GenRest /\ BioRest /\ PoolRest /\ SpawnRest /\ MoveRest
    /\ TimerRest /\ DespawnRest /\ DecoRest /\ ElemRest

SpecHazard == InitHazard /\ [][HazardNext]_vars

InitSpawn ==
    /\ SpawnInit
    /\ MobRest /\ ProjRest /\ WorldRest /\ ChunkRest
    /\ GenRest /\ BioRest /\ PoolRest /\ HazardRest /\ MoveRest
    /\ TimerRest /\ DespawnRest /\ DecoRest /\ ElemRest

SpecSpawn == InitSpawn /\ [][SpawnNext]_vars

InitMove ==
    /\ MoveInit
    /\ MobRest /\ ProjRest /\ WorldRest /\ ChunkRest
    /\ GenRest /\ BioRest /\ PoolRest /\ HazardRest /\ SpawnRest /\ TimerRest
    /\ DespawnRest /\ DecoRest /\ ElemRest

SpecMove == InitMove /\ [][MoveNext]_vars

InitTimer ==
    /\ TimerInit
    /\ MobRest /\ ProjRest /\ WorldRest /\ ChunkRest
    /\ GenRest /\ BioRest /\ PoolRest /\ HazardRest /\ SpawnRest /\ MoveRest
    /\ DespawnRest /\ DecoRest /\ ElemRest

SpecTimer == InitTimer /\ [][TimerNext]_vars

InitDespawn ==
    /\ DespawnInit
    /\ MobRest /\ ProjRest /\ WorldRest /\ ChunkRest
    /\ GenRest /\ BioRest /\ PoolRest /\ HazardRest /\ SpawnRest /\ MoveRest
    /\ TimerRest /\ DecoRest /\ ElemRest

SpecDespawn == InitDespawn /\ [][DespawnNext]_vars

InitDeco ==
    /\ DecoInit
    /\ MobRest /\ ProjRest /\ WorldRest /\ ChunkRest
    /\ GenRest /\ BioRest /\ PoolRest /\ HazardRest /\ SpawnRest /\ MoveRest
    /\ TimerRest /\ DespawnRest /\ ElemRest

SpecDeco == InitDeco /\ [][DecoNext]_vars

InitElem ==
    /\ ElemInit
    /\ MobRest /\ ProjRest /\ WorldRest /\ ChunkRest
    /\ GenRest /\ BioRest /\ PoolRest /\ HazardRest /\ SpawnRest /\ MoveRest
    /\ TimerRest /\ DespawnRest /\ DecoRest

SpecElem == InitElem /\ [][ElemNext]_vars

\* ------------------------------------------------------------ the claims

\* C1: a mob's hp is never below zero, and its alive flag, once false, is never
\* true again (it changes from true to false at most once).
C1_HpNeverNegativeAliveNeverReverts ==
    /\ [](mob.hp >= 0)
    /\ [][~mob.alive => ~mob'.alive]_vars

\* C1 witness: a mob has died of damage, its hp held at zero.
C1_Witness == ~mob.alive /\ mob.hp = 0 /\ hits_left < MaxHits /\ mob.kind = "burster"

\* The scenario of C2: the base Mob with startup 1.0 s and recovery 0.5 s, alive,
\* the player alive and inside view radius and attack range at every update.
C2_Scenario == mob.kind = "mob" /\ mob.alive /\ always_in /\ t_first # None

C2_Order == <<"idle", "attack_startup", "attack_execute", "attack_recovery",
              "attack_again">>

C2_ReachedAgain ==
    Len(trace) >= Len(C2_Order) /\ SubSeq(trace, 1, Len(C2_Order)) = C2_Order

\* C2 as stated: once 1.5 s have been simulated since the mob's first update, the
\* mob has passed through startup, execute and recovery and reached attack_again.
C2_AgainAfter1500 ==
    (C2_Scenario /\ now - t_first >= 1500) => C2_ReachedAgain

\* C2 amended: the states are passed in this order, attack_again is reached once
\* 1.5 s and three tick intervals have passed since the first update, and never
\* before 1.5 s and one tick interval have passed.
C2_AgainAfterThreeMoreTicks ==
    C2_Scenario =>
      /\ Len(trace) <= Len(C2_Order) => trace = SubSeq(C2_Order, 1, Len(trace))
      /\ now - t_first >= 1500 + 3 * MaxStep => C2_ReachedAgain
      /\ now - t_first < 1500 + MinStep => ~C2_ReachedAgain

\* C2 witness: the scenario has lasted until attack_again.
C2_Witness == C2_Scenario /\ C2_ReachedAgain /\ mob.state = "attack_again"

\* C3: with the player alive, the update of a mob that ended its last tick in
\* attack_execute leaves attack_execute (for attack_recovery or a state after it)
\* and starts the recovery timer at that tick.
C3_ExecuteLastsOneTick ==
    [][(now' # now /\ mob.alive /\ player_alive /\ mob.state = "attack_execute")
         => /\ mob'.state \in {"attack_recovery", "attack_again", "chase", "idle"}
            /\ mob'.attack_recovery_timer = TimeKeeper(mob'.attack_recovery, now')]_vars

\* C3 witness: a mob is in attack_recovery, its timer started at this tick.
C3_Witness ==
    /\ mob.state = "attack_recovery" /\ player_alive /\ now > 0
    /\ mob.attack_recovery_timer.start_time = now

C4_Subtypes == {"burster", "biter", "flutterer", "plower", "boss_self"}

C4_OneEffect(e) ==
    \/ e.projectiles > 0 /\ e.shock_waves = 0 /\ e.minions = 0 /\ e.player_hits = 0
    \/ e.projectiles = 0 /\ e.shock_waves = 1 /\ e.minions = 0 /\ e.player_hits = 0
    \/ e.projectiles = 0 /\ e.shock_waves = 0 /\ e.minions > 0 /\ e.player_hits = 0
    \/ e.projectiles = 0 /\ e.shock_waves = 0 /\ e.minions = 0 /\ e.player_hits = 1

\* C4: a subtype's update produces its attack effect exactly on the tick that
\* enters attack_execute, once, and nothing on any other tick.
C4_EffectOncePerEntry ==
    [][(now' # now /\ mob.kind \in C4_Subtypes)
         => IF mob.alive /\ mob'.state = "attack_execute" /\ mob.state # "attack_execute"
            THEN C4_OneEffect(emitted')
            ELSE emitted' = NoEffect]_vars

\* C4 witness: the boss has just entered attack_execute and summoned its minions.
C4_Witness ==
    mob.kind = "boss_self" /\ mob.state = "attack_execute" /\ emitted.minions = 4

\* The projectile is farther from its origin than shoot_distance.
C5_Beyond ==
    Distance2(proj.x, proj.y, proj.origin_x, proj.origin_y)
        > proj.shoot_distance * proj.shoot_distance

\* C5: whenever a projectile's alive flag is false, its displacement from its
\* origin is strictly greater than shoot_distance.
C5_NeverDeadInRange == ~proj.alive => C5_Beyond

\* C5 witness: a projectile has flown out of range and an update has reported it
\* dead.
C5_Witness == ~proj.alive /\ C5_Beyond /\ proj_calls > 1

\* C6 as stated: after any call of Projectile.update that leaves the projectile
\* farther from its origin than shoot_distance, its alive flag is false.
C6_DeadOnceBeyond == (proj_calls > 0 /\ C5_Beyond) => ~proj.alive

\* C6 amended: a call of Projectile.update that finds the projectile farther from
\* its origin than shoot_distance leaves its alive flag false; a call that finds
\* it in range, also one that moves it out of range, leaves the flag as it was.
C6_DeadAtNextUpdate ==
    [][(proj_calls' # proj_calls)
         => /\ C5_Beyond => ~proj'.alive
            /\ ~C5_Beyond => proj'.alive = proj.alive]_vars

\* C6 witness: an update has found the projectile out of range and reported it.
C6_Witness == ~proj.alive /\ C5_Beyond /\ proj_in_pool /\ proj.shoot_distance = 1000

\* The filter's rule for the entity of a pool: exposed exactly when the biome at
\* its position is water as the player's biome is.
C7_Rule(n) ==
    (n \in entities) <=>
        ((get_biome(world_kind, pool[n].cell) = "water") <=> (player_biome = "water"))

\* C7 as stated: after a frame, every entity of the pools is in the exposed list
\* exactly when (its biome is water) equals (the player's biome is water).
C7_ExposedIffSameSide ==
    player_biome # "none" => \A n \in PoolNames : pool[n].present => C7_Rule(n)

\* C7 amended: the same for every entity of the pools but the projectile the
\* player fired in this frame's player update, which is in world.player_attack
\* and not yet in the exposed list.
C7_ExposedIffSameSideButFired ==
    player_biome # "none" =>
        /\ \A n \in PoolNames :
              (pool[n].present /\ ~(n = "player_attack" /\ fired)) => C7_Rule(n)
        /\ fired => pool["player_attack"].present /\ "player_attack" \notin entities

\* C7 witness: the player stands in water; a mob on land is hidden, a mob attack
\* in water is exposed.
C7_Witness ==
    /\ player_biome = "water"
    /\ pool["mob"].present /\ get_biome(world_kind, pool["mob"].cell) = "fire"
    /\ "mob" \notin entities
    /\ pool["mob_attack"].present
    /\ get_biome(world_kind, pool["mob_attack"].cell) = "water"
    /\ "mob_attack" \in entities

\* The 3x3 ring of chunk centres around the chunk c.
C8_Ring(c) ==
    { <<c[1] + i * CHUNK_SIZE, c[2] + j * CHUNK_SIZE>> : i \in -1..1, j \in -1..1 }

\* C8: after construction and after the reconciliation of every update, the
\* loaded chunks are exactly the 3x3 ring around the player's current chunk,
\* nine of them.
C8_LoadedIsRing ==
    loaded_chunks = C8_Ring(current_chunk) /\ Cardinality(loaded_chunks) = 9

\* The last update found the player one chunk away along one axis.
C9_CrossedOne ==
    \/ Abs(current_chunk[1] - chunk_before[1]) = CHUNK_SIZE
         /\ current_chunk[2] = chunk_before[2]
    \/ Abs(current_chunk[2] - chunk_before[2]) = CHUNK_SIZE
         /\ current_chunk[1] = chunk_before[1]

\* C9: an update after the player crossed exactly one chunk boundary unloads
\* exactly 3 chunks and generates exactly 3, no chunk needed before and after
\* is unloaded or generated; an update without a crossing unloads and
\* generates nothing.
C9_CrossingSwapsThree ==
    /\ C9_CrossedOne =>
          /\ Cardinality(unloaded) = 3 /\ Cardinality(generated) = 3
          /\ \A c \in C8_Ring(chunk_before) \cap C8_Ring(current_chunk) :
                c \notin unloaded /\ c \notin generated /\ c \in loaded_chunks
    /\ current_chunk = chunk_before => unloaded = {} /\ generated = {}

\* C10: for a fixed world seed, every generation of a chunk coordinate, also
\* after an unload and with other generations, mob spawns and draws between,
\* yields the tiles and the decoration list (count, names, positions, order)
\* of its first generation.
C10_RegenerationSame ==
    \A c \in GenCoords :
        chunk_store[c].made =>
            /\ chunk_store[c].tiles = first_made[c].tiles
            /\ chunk_store[c].entities = first_made[c].entities

\* C10 witness: a chunk with decorations is loaded for the second time while
\* the other coordinate has been generated too.
C10_Witness ==
    \E c \in GenCoords :
        /\ chunk_store[c].made /\ made_count[c] = 2
        /\ Len(chunk_store[c].entities) >= 2
        /\ \E d \in GenCoords : d # c /\ made_count[d] >= 1

\* C11: two lookups on the same world at coordinates whose floors of
\* x / tile_size agree and whose floors of y / tile_size agree, negative and
\* identical coordinates included, return the same biome.
C11_Tile(v) == v \div TILE_SIZE

C11_SameTileSameBiome ==
    (/\ bio_prev.biome # "none"
     /\ C11_Tile(bio_prev.x) = C11_Tile(bio_last.x)
     /\ C11_Tile(bio_prev.y) = C11_Tile(bio_last.y))
        => bio_last.biome = bio_prev.biome

\* Two lookups of a World in one tile left of and below the origin, at
\* different offsets in the tile.
C11_Witness ==
    /\ bio_prev.sampled /\ bio_last.sampled
    /\ bio_prev.x = -128 /\ bio_last.x = -1
    /\ bio_prev.y = -1 /\ bio_last.y = -128
    /\ bio_last.biome = bio_prev.biome

\* C12: with both noise fields, the lookup returns air iff temp > 0 and
\* moist > 0, fire iff temp > 0 and moist <= 0, water iff temp <= 0 and
\* moist > 0, dirt iff temp <= 0 and moist <= 0, a sample of exactly 0 counting
\* as not greater than 0, and never fifth_biome.
C12_SignQuadrants ==
    bio_last.sampled =>
        /\ bio_last.biome = "air" <=> (bio_last.temp > 0 /\ bio_last.moist > 0)
        /\ bio_last.biome = "fire" <=> (bio_last.temp > 0 /\ bio_last.moist <= 0)
        /\ bio_last.biome = "water" <=> (bio_last.temp <= 0 /\ bio_last.moist > 0)
        /\ bio_last.biome = "dirt" <=> (bio_last.temp <= 0 /\ bio_last.moist <= 0)
        /\ bio_last.biome # "fifth_biome"

\* A temperature sample of exactly 0 with a positive moisture: water.
C12_Witness ==
    /\ bio_last.sampled
    /\ bio_last.temp = 0 /\ bio_last.moist > 0
    /\ bio_last.biome = "water"

\* C13: on a world that lacks the temperature or the moisture noise field,
\* a Room among them, every lookup returns fifth_biome and none raises.
C13_FifthWithoutNoise ==
    (bio_last.biome # "none" /\ ~(bio_world.has_temp /\ bio_world.has_moist))
        => bio_last.biome = "fifth_biome"

\* Two lookups in a row on a world with one of the two noise fields.
C13_Witness ==
    /\ bio_world.has_temp /\ ~bio_world.has_moist
    /\ bio_prev.biome = "fifth_biome" /\ bio_last.biome = "fifth_biome"
    /\ bio_prev.x # bio_last.x

\* C14: a mob whose alive flag is false is never updated again by World or
\* Room, is removed from world.mob by the mob loop of the next frame, and is
\* never appended again.
C14_NeverUpdated == frame_log.updated_dead = {}

C14_GoneAfterNextFrame ==
    \A k \in 1..Len(mob_list) : ~mob_list[k].alive => mob_list[k].id \in frame_log.died

C14_NeverReAdded == IdsOf(mob_list) \cap gone = {}

C14_RemovedByMobLoop ==
    /\ C14_NeverUpdated
    /\ C14_GoneAfterNextFrame
    /\ C14_NeverReAdded
    /\ frame_log.despawned_dead = {}

\* C14, amended: the removal is in the next frame, by its mob loop or, in a
\* World, by the despawn of a game tick of that frame, which runs before it.
C14_RemovedInNextFrame ==
    /\ C14_NeverUpdated
    /\ C14_GoneAfterNextFrame
    /\ C14_NeverReAdded

\* The mob loop has just removed a dead mob while another mob lives on.
C14_Witness ==
    /\ frame_log.removed # {}
    /\ frame_log.removed \subseteq gone
    /\ \E k \in 1..Len(mob_list) : mob_list[k].alive

\* C15: a player projectile that collides with a mob in the mob's update_hp
\* is out of world.player_attack before another mob is updated: it causes at
\* most one get_damage call in its life, and none while it is in the list.
C15_OneDamagePerProjectile ==
    /\ \A s \in DOMAIN damage_by : damage_by[s] <= 1
    /\ \A k \in 1..Len(player_attack) : damage_by[player_attack[k].id] = 0

\* Two live mobs on one tile, a projectile came: the first in the list took
\* the damage, the second none.
C15_Witness ==
    /\ Len(mob_list) = 2
    /\ mob_list[1].cell = mob_list[2].cell
    /\ mob_list[1].hp = PoolHp - 1 /\ mob_list[2].hp = PoolHp
    /\ frame_log.emitted_by = {} /\ frame_log.removed = {}
    /\ \E s \in DOMAIN damage_by : damage_by[s] = 1
    /\ player_attack = <<>>

\* C17: the mob loop runs before the two projectile loops: a mob that dies
\* in the update in which it enters attack_execute still appends its attack,
\* and what the mob loop appended to world.mob_attack is updated in the same
\* frame.
C17_DyingMobAttacks ==
    /\ frame_log.exec_dead \subseteq frame_log.emitted_by
    /\ frame_log.fresh_updated

\* A Burster died in the update that ended in attack_execute; its projectile
\* is in world.mob_attack, updated.
C17_Witness ==
    /\ \E k \in 1..Len(mob_list) :
          /\ mob_list[k].kind = "burster"
          /\ ~mob_list[k].alive
          /\ mob_list[k].state = "attack_execute"
          /\ mob_list[k].id \in frame_log.exec_dead
          /\ mob_list[k].id \in frame_log.emitted_by
    /\ \E k \in 1..Len(mob_attack) : mob_attack[k].fresh /\ mob_attack[k].updated

\* C20: in the Room, once the boss's alive flag is false every mob of
\* world.mob has hp 0, and within a bounded number of frames (two) world.mob
\* is empty and stays empty.
C20_BossDown == in_room /\ ~boss_alive

C20_AllZero == \A k \in 1..Len(mob_list) : mob_list[k].hp = 0

C20_MinionsZeroedPoolEmpties ==
    C20_BossDown => (C20_AllZero /\ (down_frames >= 2 => mob_list = <<>>))

\* The boss summoned, was killed, and the pool is empty.
C20_Witness ==
    /\ C20_BossDown
    /\ next_id > 2
    /\ mob_list = <<>>
    /\ down_frames = MaxDownFrames

\* C16: a ShockWave that meets the player stays in world.mob_attack and its
\* damage is applied only when its timer is over, which restarts the timer,
\* so two applications by one ShockWave are at least the timer's interval
\* apart; a Projectile that meets the player is removed by that _update_hp
\* and its damage is applied at most once.
C16_Interval == 100

C16_Timed(id) == id <= Len(hz_made) /\ hz_made[id].has_timer

C16_HazardCadence ==
    /\ \A id \in DOMAIN hz_calls :
          IF C16_Timed(id)
          THEN /\ \A k \in 1..Len(hz_calls[id]) :
                     hz_calls[id][k] - (IF k = 1 THEN hz_made[id].t ELSE hz_calls[id][k - 1])
                         >= C16_Interval
          ELSE Len(hz_calls[id]) <= 1
    /\ \A id \in hz_last.collided :
          IF C16_Timed(id) THEN id \in IdsOf(hz_list)
          ELSE id \in hz_last.hit /\ id \notin IdsOf(hz_list)

\* One ShockWave damaged twice and is still in the list, one Projectile
\* damaged once and is gone.
C16_Witness ==
    /\ Len(hz_made) = 2
    /\ \E id \in DOMAIN hz_calls :
          C16_Timed(id) /\ Len(hz_calls[id]) = 2 /\ id \in IdsOf(hz_list)
                        /\ id \in hz_last.hit
    /\ \E id \in DOMAIN hz_calls :
          ~C16_Timed(id) /\ Len(hz_calls[id]) = 1 /\ id \notin IdsOf(hz_list)

\* C19: while the boss's start flag is false, an update of the boss leaves
\* its state, its timers, its hit points and its attack parameters as they
\* were and adds no projectile, no shock wave, no minion and no hit on the
\* player.  (The clock moves only in the step that updates the mob.)
C19_Nothing == [projectiles |-> 0, shock_waves |-> 0, minions |-> 0, player_hits |-> 0]

C19_UnstartedUpdate ==
    mob.kind = "boss_self" /\ ~mob.start /\ mob.alive /\ mob_in_pool /\ now' # now

C18_Cap == 15

C18_Subtype(b) ==
    CASE b = "fire" -> "burster" [] b = "water" -> "biter"
      [] b = "air" -> "flutterer" [] b = "dirt" -> "plower"

C18_OneIfLiveBelowCap ==
    /\ sp_ticked =>
          IF sp_tick.live < C18_Cap
          THEN sp_tick.added = 1 /\ sp_tick.kind = C18_Subtype(sp_tick.biome)
          ELSE sp_tick.added = 0
    /\ sp_live + sp_dead <= C18_Cap

\* C18 (amended): every call of _spawn_mob adds exactly one mob, of the
\* subtype of the biome at the candidate point, when after the removal of the
\* far mobs world.mob holds fewer than 15 mobs, dead ones not yet removed
\* included, and random.random() is not 0, and none otherwise; world.mob
\* never holds more than 15 mobs.
C18_OneIfPoolBelowCap ==
    /\ sp_ticked =>
          IF sp_tick.len < C18_Cap /\ sp_tick.drawn
          THEN sp_tick.added = 1 /\ sp_tick.kind = C18_Subtype(sp_tick.biome)
          ELSE sp_tick.added = 0
    /\ sp_live + sp_dead <= C18_Cap

\* A game tick found the list full, one of its mobs dead, and added none.
C18_Witness ==
    /\ sp_ticked
    /\ sp_tick.len = C18_Cap /\ sp_tick.live = C18_Cap - 1
    /\ sp_tick.drawn /\ sp_tick.added = 0
    /\ sp_live + sp_dead = C18_Cap

\* The step that runs Mob.update on the mob: the clock moves only there.  The
\* update of a boss that has not started returns before Mob.update.
C21_PlayerDeadUpdate ==
    /\ mob_in_pool /\ mob.alive /\ now' # now
    /\ ~player_alive

\* C21: when the player is not alive at a mob's update, the mob's state at
\* the end of that update is idle, whatever its state, its timers and the
\* player's distance were.
C21_IdleWhenPlayerDead ==
    [][C21_PlayerDeadUpdate => mob'.state = "idle"]_vars

\* The mob was in attack_startup one update ago, the player in range; the
\* last update found the player in range and dead, and the mob is idle.
C21_Witness ==
    /\ mob.kind = "mob" /\ mob.alive /\ mob_in_pool /\ ~player_alive
    /\ mob.attack_startup_timer.start_time > 0
    /\ now - mob.attack_startup_timer.start_time = 250
    /\ mob.detect_player /\ mob.attack_possible
    /\ mob.state = "idle"

\* An update, with the player alive, of a mob that is in attack_again.
C22_AgainUpdate ==
    /\ mob_in_pool /\ mob.alive /\ now' # now
    /\ player_alive /\ mob.state = "attack_again"

\* The startup timer was started anew in the update.
C22_TimerRestarted ==
    /\ mob'.attack_startup_timer.start_time = now'
    /\ mob'.attack_startup_timer.duration = mob'.attack_startup

\* C22 (as the claim states it): with the player alive, a mob in
\* attack_again goes to attack_startup in the update and restarts the startup
\* timer whether or not the player is in attack range; its state after the
\* update is attack_startup or attack_execute, never idle or chase.
C22_AgainNeverIdle ==
    [][C22_AgainUpdate =>
          /\ C22_TimerRestarted
          /\ mob'.state \in {"attack_startup", "attack_execute"}]_vars

\* C22 (amended): with the player alive, a mob in attack_again restarts the
\* startup timer in the update; with the player in attack range its state
\* after the update is attack_startup, or attack_execute when the startup
\* timer is already over, and with the player out of attack range it is idle;
\* it is never chase.
C22_AgainToStartupOrIdle ==
    [][C22_AgainUpdate =>
          /\ C22_TimerRestarted
          /\ mob'.state = IF ~mob'.attack_possible THEN "idle"
                          ELSE IF mob'.attack_startup <= 0 THEN "attack_execute"
                          ELSE "attack_startup"]_vars

\* The startup timer was restarted in the last update although the player
\* is out of attack range, which only attack_again does; the mob is idle.
C22_Witness ==
    /\ mob_in_pool /\ mob.alive /\ player_alive /\ now > 0
    /\ mob.attack_startup_timer.start_time = now
    /\ ~mob.attack_possible
    /\ mob.state = "idle"

\* An update, with the player alive, of a mob that is in attack_recovery.
C23_RecoveryUpdate ==
    /\ mob_in_pool /\ mob.alive /\ now' # now
    /\ player_alive /\ mob.state = "attack_recovery"

\* The recovery timer the mob entered the update with is over at the update.
C23_Elapsed ==
    now' - mob.attack_recovery_timer.start_time >= mob.attack_recovery_timer.duration

\* C23: with the player alive, a mob in attack_recovery stays there in an
\* update before its recovery timer is over, and in an update at which the
\* timer is over it goes to attack_again when the player is in attack range,
\* else to chase when the player is detected, else to idle.
C23_LeaveRecoveryOnTimer ==
    [][C23_RecoveryUpdate =>
          mob'.state = IF ~C23_Elapsed THEN "attack_recovery"
                       ELSE IF mob'.attack_possible THEN "attack_again"
                       ELSE IF mob'.detect_player THEN "chase"
                       ELSE "idle"]_vars

\* A plower reached attack_again, which only a finished recovery leads to;
\* its recovery of a second spans more than one update.
C23_Witness ==
    /\ mob.kind = "plower" /\ mob_in_pool /\ mob.alive /\ player_alive
    /\ mob.state = "attack_again"
    /\ mob.attack_recovery_timer.start_time > 0
    /\ now - mob.attack_recovery_timer.start_time >= 1000

\* An update, with the player alive, of a mob that is in idle or chase (a boss
\* is updated once it has started).
C24_CalmUpdate ==
    /\ mob_in_pool /\ mob.alive /\ now' # now
    /\ player_alive /\ mob.state \in {"idle", "chase"}
    /\ mob.kind = "boss_self" => mob.start

\* The player is inside the view radius and inside the attack range at the update.
C24_InBoth == mob'.detect_player /\ mob'.attack_possible

\* C24: with the player alive, a mob in idle or chase enters attack_startup,
\* with a new startup timer of attack_startup seconds, in exactly the updates
\* at which the player is inside both the view radius and the attack range
\* (a startup of no duration is over in the same update, which ends in
\* attack_execute); otherwise the timer is left alone and the update ends in
\* neither state; a mob in idle goes to chase when the player is detected
\* and out of attack range.
C24_EnterStartupInRange ==
    [][C24_CalmUpdate =>
          /\ C24_InBoth =>
                /\ mob'.attack_startup_timer.start_time = now'
                /\ mob'.attack_startup_timer.duration = mob'.attack_startup
                /\ mob'.state = IF mob'.attack_startup <= 0 THEN "attack_execute"
                                ELSE "attack_startup"
          /\ ~C24_InBoth =>
                /\ mob'.attack_startup_timer = mob.attack_startup_timer
                /\ mob'.state \notin {"attack_startup", "attack_execute"}
          /\ (mob.state = "idle" /\ mob'.detect_player /\ ~mob'.attack_possible)
                => mob'.state = "chase"]_vars

\* A mob that has never attacked (its recovery timer is the constructor's)
\* started its startup timer in the last update and is in attack_startup.
C24_Witness ==
    /\ mob.kind = "mob" /\ mob_in_pool /\ mob.alive /\ player_alive
    /\ mob.attack_recovery_timer.start_time = 0
    /\ now > 0 /\ mob.attack_startup_timer.start_time = now
    /\ mob.state = "attack_startup"

\* An update with the player alive that finds the player out of attack range.
C25_OutOfRangeUpdate ==
    /\ mob_in_pool /\ mob.alive /\ now' # now
    /\ player_alive /\ ~mob'.attack_possible

\* C25: with the player alive, a mob in attack_startup is idle after an
\* update at which the player is out of attack range, whether or not its
\* startup timer is over, and no update at which the player is out of attack
\* range ends in attack_execute.
C25_StartupCancelled ==
    [][C25_OutOfRangeUpdate =>
          /\ mob.state = "attack_startup" => mob'.state = "idle"
          /\ mob'.state # "attack_execute"]_vars

\* A mob started its startup of one second in the update before the last,
\* and the last update found the player out of attack range: it is idle.
C25_Witness ==
    /\ mob.kind = "mob" /\ mob_in_pool /\ mob.alive /\ player_alive
    /\ mob.attack_startup_timer.start_time > 0
    /\ now - mob.attack_startup_timer.start_time = 250
    /\ ~mob.attack_possible
    /\ mob.state = "idle"

\* C27: the damage resolution of a mob takes only live player projectiles: a
\* player projectile whose alive flag is false causes no get_damage call and
\* no hit particles.  (dead_hits: the projectiles that were not alive when a
\* mob's update_hp of the frame met them.)
C27_OnlyLiveShotsHit == frame_log.dead_hits = {}

\* ---------------------------------------------------------------- C29
\* C29: after any update, every mob of the mob pool, a freshly spawned mob and
\* a boss minion included, is inside the world bounds: |x| <= width / 2 and
\* |y| <= height / 2.
C29_Inside(p, room) ==
    /\ Abs(p[1]) <= half_size(room)
    /\ Abs(p[2]) <= half_size(room)
C29_MobsInsideBounds == mv_in_pool => C29_Inside(mv_pos, mv_room)

\* ---------------------------------------------------------------- C26
\* C26: when a mob resolves the player-projectile hits of a tick, its
\* collision shape is at the mob's post-move position of that tick.
C26_ShapeAtPostMove ==
    (mv_last.updated /\ mv_last.shot) => mv_last.hp_collider = mv_last.post

\* ---------------------------------------------------------------- C28
\* C28: a mob's position changes in an update only if the player is alive and
\* the mob is in chase (without move_while_attack) or detects the player (with
\* it); a move is toward the player, by at most speed * dt, never past the
\* player, and never increases the distance to the player.
C28_Between(a, v, b) == (a <= v /\ v <= b) \/ (b <= v /\ v <= a)
C28_Moved == mv_last.updated /\ mv_last.post # mv_last.pre
C28_MayMove ==
    /\ mv_last.palive
    /\ IF mv_last.mwa THEN mv_last.detect ELSE mv_last.state = "chase"
C28_TowardPlayer ==
    /\ Distance2(mv_last.pre[1], mv_last.pre[2], mv_last.post[1], mv_last.post[2])
         <= mv_last.d * mv_last.d
    /\ C28_Between(mv_last.pre[1], mv_last.post[1], mv_last.player[1])
    /\ C28_Between(mv_last.pre[2], mv_last.post[2], mv_last.player[2])
    /\ Distance2(mv_last.post[1], mv_last.post[2], mv_last.player[1], mv_last.player[2])
         <= Distance2(mv_last.pre[1], mv_last.pre[2], mv_last.player[1], mv_last.player[2])
C28_MoveRule == C28_Moved => (C28_MayMove /\ C28_TowardPlayer)

\* ---------------------------------------------------------------- C30
\* C30: in a frame where the time since the last reset of the tick timer is e,
\* the tick body runs floor(e / interval) times when e >= interval and not at
\* all when e < interval; the timer is reset only in the frames where the body
\* ran.
C30_IntervalMs == 100
C30_TickCount ==
    tm_last.seen =>
        /\ tm_last.ran = IF tm_last.e >= C30_IntervalMs
                         THEN tm_last.e \div C30_IntervalMs ELSE 0
        /\ tm_last.reset <=> tm_last.ran > 0

\* ---------------------------------------------------------------- C31
\* C31: after each execution of the tick body no mob of the pool is farther
\* than the despawn distance (20000) from the player, and the mob the body
\* spawned, at a distance of 3000..10000, is in the pool after it.
C31_Dist2(p, q) == (p[1] - q[1]) * (p[1] - q[1]) + (p[2] - q[2]) * (p[2] - q[2])
C31_DespawnDistance == 20000
C31_SpawnMin == 3000
C31_SpawnMax == 10000
C31_NoneFarSpawnKept ==
    ds_last.ran =>
        /\ \A i \in 1..Len(ds_last.pool) :
              C31_Dist2(ds_last.pool[i], ds_last.player)
                  <= C31_DespawnDistance * C31_DespawnDistance
        /\ ds_last.added =>
              /\ Len(ds_last.pool) > 0
              /\ ds_last.pool[Len(ds_last.pool)] = ds_last.pos
              /\ C31_Dist2(ds_last.pos, ds_last.player) >= C31_SpawnMin * C31_SpawnMin
              /\ C31_Dist2(ds_last.pos, ds_last.player) <= C31_SpawnMax * C31_SpawnMax
\* A call that removed a far mob and spawned a mob.
C31_Witness == ds_last.ran /\ ds_last.removed > 0 /\ ds_last.added

\* ---------------------------------------------------------------- C32
\* C32: on the tick a started boss enters attack_execute the effect is that of
\* its pattern on that tick: projectile adds exactly 5 projectiles at the
\* angles a - 10, a - 5, a, a + 5, a + 10 around the direction a to the player,
\* wave adds exactly one ShockWave, summon_minions adds exactly one Burster,
\* one Biter, one Flutterer and one Plower; nothing of another pattern is added.
C32_BossExecutes ==
    /\ mv_last.updated /\ mv_mob.kind = "boss_self" /\ mv_last.state = "attack_execute"
C32_Whats == [i \in 1..Len(mv_last.boss_adds) |-> mv_last.boss_adds[i].what]
C32_Centre ==
    IF mv_last.player = mv_last.post THEN "uniform"
    ELSE <<mv_last.player[2] - mv_last.post[2], mv_last.player[1] - mv_last.post[1]>>
C32_IsFan ==
    /\ Len(mv_last.boss_adds) = 5
    /\ \A i \in 1..5 :
         /\ mv_last.boss_adds[i].what = "Projectile"
         /\ mv_last.boss_adds[i].angle.of = C32_Centre
    /\ {mv_last.boss_adds[i].angle.plus : i \in 1..5} = {-10, -5, 0, 5, 10}
C32_EffectOfPattern ==
    C32_BossExecutes =>
        CASE mv_last.next_attack = "projectile" -> C32_IsFan
          [] mv_last.next_attack = "wave" -> C32_Whats = <<"ShockWave">>
          [] mv_last.next_attack = "summon_minions" ->
               /\ Len(C32_Whats) = 4
               /\ {C32_Whats[i] : i \in 1..4} = {"Burster", "Biter", "Flutterer", "Plower"}
\* A boss that fired its fan at a player away from it.
C32_Witness ==
    /\ C32_BossExecutes /\ mv_last.next_attack = "projectile"
    /\ mv_last.player # mv_last.post

\* ---------------------------------------------------------------- C33
\* The BossSelf objects of a mob pool.
C33_Bosses(list) == {k \in 1..Len(list) : list[k].kind = "boss_self"}

\* Room.__init__ leaves exactly one mob in the pool, the boss, at the place
\* it is built at.
C33_Built == in_room => mob_list = <<NewPoolMob(1, "boss_self", 1)>>

\* One Room.update: at most one boss afterwards; a mob that joins the pool is
\* one of the four minions of a summon of the boss (no spawn of the game
\* tick); a mob that leaves it was dead before the update (no despawn of the
\* game tick).
C33_RoomStep ==
    in_room =>
      /\ Cardinality(C33_Bosses(mob_list')) <= 1
      /\ \A k \in 1..Len(mob_list') :
            mob_list'[k].id \notin IdsOf(mob_list) =>
              /\ \E j \in 1..Len(MinionKinds) : mob_list'[k].kind = MinionKinds[j]
              /\ mob_list'[k].kind # "boss_self"
              /\ \E b \in C33_Bosses(mob_list) :
                    mob_list[b].id \in frame_log'.emitted_by
      /\ \A k \in 1..Len(mob_list) :
            mob_list[k].id \notin IdsOf(mob_list') => ~mob_list[k].alive

C34_ChaseUpdate ==
    /\ mv_in_pool /\ mv_mob.state = "chase" /\ mv_alive
    /\ mv_last'.updated /\ ~mv_last'.fresh
    /\ mv_mob'.kind = mv_mob.kind
    /\ ~mv_mob'.attack_possible

\* The move of that update: x, y go toward the player by speed * dt and are
\* clamped; the mob is displaced whenever it is not on the player and the step
\* is at least two pixels long (positions are whole pixels: a shorter
\* step can round to none), and it ends no farther from the player.
C34_KeepsMoving ==
    /\ mv_last'.post = clamp(move_towards(mv_last'.pre, mv_last'.player, mv_last'.d),
                             half_size(mv_room))
    /\ (mv_last'.d >= 2 /\ mv_last'.pre # mv_last'.player)
          => mv_last'.post # mv_last'.pre
    /\ Distance2(mv_last'.post[1], mv_last'.post[2],
                 mv_last'.player[1], mv_last'.player[2])
         <= Distance2(mv_last'.pre[1], mv_last'.pre[2],
                      mv_last'.player[1], mv_last'.player[2])

C34_Step ==
    C34_ChaseUpdate =>
        /\ mv_mob'.state = "chase"
        /\ ~mv_mob'.move_while_attack => C34_KeepsMoving

\* C34: with the player alive, a mob in chase is still in chase after every
\* update in which the player is outside its attack distance, whether or not
\* the player is inside its view radius, and, without move_while_attack, it
\* moves toward the player in that update.
C34_ChaseKept == [][C34_Step]_vars

\* A mob without move_while_attack that has just been updated in chase while
\* the player was outside its view radius (only a mob already in chase can be:
\* every transition into chase needs detect_player), and has moved.
C34_Witness ==
    /\ mv_last.updated /\ ~mv_last.fresh /\ mv_last.palive
    /\ mv_last.state = "chase" /\ ~mv_last.detect /\ ~mv_last.mwa
    /\ mv_last.post # mv_last.pre

\* ---------------------------------------------------------------- C35
\* _to_chunk_center of a position in pixels gives the chunk coordinate c.
C35_InCell(x, y, c) == _to_chunk_center(4 * x, 4 * y) = c

\* Every tile of the chunk lies inside the chunk's own cell.
C35_TilesInCell ==
    dc_chunk \in DecoCoords =>
        \A k \in DOMAIN ChunkTiles(dc_seed, dc_chunk[1], dc_chunk[2]) :
            C35_InCell(ChunkTiles(dc_seed, dc_chunk[1], dc_chunk[2])[k].x,
                       ChunkTiles(dc_seed, dc_chunk[1], dc_chunk[2])[k].y, dc_chunk)

\* C35: every tile and every decoration a chunk generates lies inside the
\* chunk's own cell: _to_chunk_center of its position is the chunk's
\* coordinate, for every coordinate and every draw of the jitter in
\* -chunk_size/2 .. chunk_size/2, both ends included.
C35_AllInOwnCell ==
    /\ C35_TilesInCell
    /\ \A k \in 1..Len(dc_entities) :
          C35_InCell(dc_entities[k].x, dc_entities[k].y, dc_chunk)

\* ---------------------------------------------------------------- C36
\* C36: after a frame, a decoration of the loaded chunk is in the exposed
\* entity list exactly when (the biome at its position is water) equals (the
\* player's biome is water), for every category the generator appends.
C36_NameRuleIsBiomeRule ==
    dc_framed =>
        \A k \in 1..Len(dc_entities) :
            (\E j \in 1..Len(dc_exposed) : dc_exposed[j] = dc_entities[k])
              <=> ((get_biome_xy(dc_seed, dc_entities[k].x, dc_entities[k].y) = "water")
                     <=> (dc_pb = "water"))

\* A frame has run over a chunk with a decoration.
C36_Witness == dc_framed /\ dc_entities # <<>>

\* ---------------------------------------------------------------- C37
\* A frame in which a mob is updated while the player is not alive.
C37_DeadPlayerUpdate == ~mv_alive /\ mv_last'.updated /\ mv_frames' = mv_frames + 1

\* That update leaves the mob idle where it was, adds no projectile, shock
\* wave or minion to a pool and does not damage the player; a player
\* projectile that hits the mob still takes hit points from it.
C37_Step ==
    C37_DeadPlayerUpdate =>
        /\ ~mv_last'.palive
        /\ mv_last'.post = mv_last'.pre
        /\ mv_pos' = mv_last'.pre
        /\ mv_mob'.state = "idle"
        /\ AttackEffect(mv_mob') = NoEffect
        /\ mv_last'.boss_adds = <<>>
        /\ (mv_last'.shot /\ ~mv_last'.fresh) => mv_mob'.hp < mv_mob.hp

\* C37: while the player is not alive no mob of any subtype moves, adds a
\* projectile, hazard or minion to a pool or damages the player, over any
\* number of frames; a mob can still lose hit points to a player projectile
\* in flight.
C37_NoActionWhilePlayerDead == [][C37_Step]_vars

\* A mob with move_while_attack that detects the dead player (it would move
\* were the player alive) has been updated and has lost hit points to a
\* player projectile in that update.
C37_Witness ==
    /\ ~mv_alive /\ mv_last.updated /\ ~mv_last.palive
    /\ mv_last.shot /\ mv_mob.hp < MobParams(mv_mob.kind).hp
    /\ mv_last.mwa /\ mv_last.detect

\* A second case: the boss, started, updated with the player dead.
C37_BossWitness ==
    /\ ~mv_alive /\ mv_last.updated /\ ~mv_last.palive
    /\ mv_mob.kind = "boss_self" /\ mv_mob.start

\* ---------------------------------------------------------------- C38
C38_Within(v) == 0 <= v /\ v <= pe_player.element_max

\* The counters other than air stay within 0..element_max.
C38_FireWaterDirtWithin ==
    C38_Within(pe_player.fire) /\ C38_Within(pe_player.water) /\ C38_Within(pe_player.dirt)

\* C38: after any sequence of charges, left clicks and right clicks each of
\* the player's element counters (fire, water, dirt, air) is within
\* 0..element_max (100).
C38_ElementsWithin ==
    /\ C38_Within(pe_player.fire) /\ C38_Within(pe_player.water)
    /\ C38_Within(pe_player.dirt) /\ C38_Within(pe_player.air)

\* ---------------------------------------------------------------- C39
\* An update in which the fire attack (left or right click with fire
\* selected) deducts its cost.
C39_FireAttackPaid ==
    /\ attack_type(pe_player'.selected_attack_code) = "fire"
    /\ pe_player'.fire < pe_player.fire

C39_Step ==
    C39_FireAttackPaid =>
        /\ Len(pe_pool') = Len(pe_pool) + 1
        /\ SubSeq(pe_pool', 1, Len(pe_pool)) = pe_pool
        /\ pe_pool'[Len(pe_pool')].x = pe_player.x
        /\ pe_pool'[Len(pe_pool')].y = pe_player.y

\* C39: whenever a player projectile attack (fire left click or fire right
\* click) deducts its cost, exactly one Projectile starting at the player's
\* position is appended to world.player_attack in the same update, for every
\* aim direction, a cursor exactly at the screen centre included.
C39_PaidShotAppendsOne == [][C39_Step]_vars

==============================================================================
